---- MODULE Spec2Model ----
(***************************************************************************)
(* The Vulkan swapchain of engine/flutter/vulkan/vulkan_swapchain.cc:      *)
(* construction, AcquireSurface, Submit, FlushCommands, AddToPresent and   *)
(* PresentAll, together with the calls each of them issues to the device,  *)
(* the platform and Skia.                                                  *)
(***************************************************************************)
EXTENDS Integers, Sequences, FiniteSets, TLC

(***************************************************************************)
(* Bounds of the model.                                                    *)
(***************************************************************************)
\* the largest number of images vk.GetSwapchainImagesKHR reports
MaxImages == 2

\* the swapchain objects and the threads that drive them
Chains == {"c1", "c2"}
Solo == {"c1"}
Threads == {"t1", "t2"}
SoloThread == {"t1"}
NoChain == "-"

(***************************************************************************)
(* Vulkan enumerators used by the swapchain.                               *)
(***************************************************************************)
TOP_OF_PIPE == "VK_PIPELINE_STAGE_TOP_OF_PIPE_BIT"
COLOR_ATTACHMENT_OUTPUT == "VK_PIPELINE_STAGE_COLOR_ATTACHMENT_OUTPUT_BIT"
BOTTOM_OF_PIPE == "VK_PIPELINE_STAGE_BOTTOM_OF_PIPE_BIT"

LAYOUT_UNDEFINED == "VK_IMAGE_LAYOUT_UNDEFINED"
COLOR_ATTACHMENT_OPTIMAL == "VK_IMAGE_LAYOUT_COLOR_ATTACHMENT_OPTIMAL"
PRESENT_SRC_KHR == "VK_IMAGE_LAYOUT_PRESENT_SRC_KHR"

ACCESS_NONE == "0"
COLOR_ATTACHMENT_WRITE == "VK_ACCESS_COLOR_ATTACHMENT_WRITE_BIT"
MEMORY_READ == "VK_ACCESS_MEMORY_READ_BIT"

\* what vk.AcquireNextImageKHR can return: the three results the switch
\* names, and two of the results that fall to its default branch
AcquireResults ==
    {"VK_SUCCESS", "VK_ERROR_OUT_OF_DATE_KHR", "VK_ERROR_SURFACE_LOST_KHR",
     "VK_SUBOPTIMAL_KHR", "VK_ERROR_DEVICE_LOST"}

\* AcquireStatus
Success == "Success"
ErrorSurfaceLost == "ErrorSurfaceLost"
ErrorSurfaceOutOfDate == "ErrorSurfaceOutOfDate"

(***************************************************************************)
(* Handles.  A semaphore, fence, command buffer or surface is named by its *)
(* kind, its chain and its index in the chain.                             *)
(***************************************************************************)
NoHandle == <<"null", NoChain, -1>>
UsageSemaphore(c, i) == <<"usage_semaphore", c, i>>
RenderSemaphore(c, i) == <<"render_semaphore", c, i>>
UsageFence(c, i) == <<"usage_fence", c, i>>
RenderFence(c, i) == <<"render_fence", c, i>>
UsageCommandBuffer(c, i) == <<"usage_command_buffer", c, i>>
RenderCommandBuffer(c, i) == <<"render_command_buffer", c, i>>
SkSurface(c, i) == <<"SkSurface", c, i>>
SharedFence == <<"shared_fence", NoChain, -1>>

\* element i of a std::vector, which the model keeps as a sequence
At(v, i) == v[i + 1]
SetAt(v, i, x) == [v EXCEPT ![i + 1] = x]

(***************************************************************************)
(* One call issued to a collaborator (device, platform, command buffer,    *)
(* backbuffer, Skia), with the arguments the swapchain passes.             *)
(***************************************************************************)
FenceCall(fn, c, i) == [fn |-> fn, chain |-> c, slot |-> i]

AcquireNextImageCall(c, semaphore) ==
    [fn |-> "AcquireNextImageKHR", chain |-> c, semaphore |-> semaphore]

\* VulkanCommandBuffer::Begin and End
RecordCall(fn, c, cmd) == [fn |-> fn, chain |-> c, cmd |-> cmd]

BarrierCall(c, cmd, img, src, dst, access, layout) ==
    [fn |-> "InsertImageMemoryBarrier", chain |-> c, cmd |-> cmd,
     image |-> img, src |-> src, dst |-> dst, access |-> access,
     layout |-> layout]

QueueSubmitCall(c, waitStages, wait, signal, cmds, fence) ==
    [fn |-> "QueueSubmit", chain |-> c, waitStages |-> waitStages,
     wait |-> wait, signal |-> signal, cmds |-> cmds, fence |-> fence]

QueuePresentCall(c, wait, swapchains, indices) ==
    [fn |-> "QueuePresentKHR", chain |-> c, wait |-> wait,
     swapchains |-> swapchains, indices |-> indices]

\* SkSurface::flush, SkSurface::getBackendRenderTarget and
\* GrBackendRenderTarget::setVkImageLayout on the surface of image img
SurfaceCall(fn, c, img, layout) ==
    [fn |-> fn, chain |-> c, image |-> img, layout |-> layout]

CountFn(calls, fn) == Cardinality({k \in 1..Len(calls) : calls[k].fn = fn})


(***************************************************************************)
(* State.                                                                  *)
(*   swapchain      the VulkanSwapchain objects, by name                   *)
(*   to_be_present_ the static registry: thread identity -> swapchain      *)
(*   pc             where each thread stands in PresentAll                 *)
(*   crashed        the process has run into undefined behaviour and died  *)
(*   last           the operation that ran last: its result and the calls  *)
(*                  it issued, in order                                    *)
(*   queue          the SkiaUnrefQueue object                              *)
(*   drain_tasks    the drain tasks posted to task_runner_ and not yet run *)
(*   skia_objects   the local deque of each Drain call that is under way   *)
(*   unref_calls    how many times unref() was called on each object       *)
(***************************************************************************)
VARIABLES swapchain, to_be_present_, pc, crashed, last,
          queue, drain_tasks, skia_objects, unref_calls

\* the state of the SkiaUnrefQueue and of what it posts and releases
unref_vars == <<queue, drain_tasks, skia_objects, unref_calls>>

\* the state of the swapchains
swapchain_vars == <<swapchain, to_be_present_, pc, crashed, last>>

vars == <<swapchain, to_be_present_, pc, crashed, last,
          queue, drain_tasks, skia_objects, unref_calls>>

\* the objects handed to SkiaUnrefQueue::Unref, each handed over once
MaxObjects == 2

Objects == 1..MaxObjects

\* who calls Drain: the task posted by Unref, and a caller of its own
Drainers == {"task", "caller"}

\* no Drain call of this drainer is under way
NotDraining == [running |-> FALSE, objects |-> <<>>]

\* SkiaUnrefQueue as its constructor leaves it: nothing queued, no drain
\* pending, not invalid
SkiaUnrefQueue ==
    [objects_ |-> <<>>, drain_pending_ |-> FALSE, invalid_ |-> FALSE]

\* the members as the constructor's initialiser list leaves them
Unbuilt ==
    [built |-> FALSE,
     destroyed |-> FALSE,
     valid_ |-> FALSE,
     swapchain_ |-> FALSE,
     backbuffers_ |-> <<>>,
     images_ |-> <<>>,
     surfaces_ |-> <<>>,
     current_pipeline_stage_ |-> TOP_OF_PIPE,
     current_backbuffer_index_ |-> 0,
     current_image_index_ |-> 0]

\* a VulkanBackbuffer that constructed: valid, not in multi-threading mode
NewBackbuffer == [valid |-> TRUE, multi_threading |-> FALSE]

\* a VulkanImage around a non-null handle, never transitioned
NewImage ==
    [valid |-> TRUE, stage |-> TOP_OF_PIPE, access |-> ACCESS_NONE,
     layout |-> LAYOUT_UNDEFINED]

\* what the operation that ran last did: its name, swapchain and thread,
\* what it returned (status, surface), what the platform answered to
\* vk.AcquireNextImageKHR (result, image; "" and -1 when it was not asked),
\* the call that failed ("none" when none did) and the calls it issued
Report(op, c, t, status, surface, result, image, failed, calls) ==
    [op |-> op, chain |-> c, thread |-> t, status |-> status,
     surface |-> surface, result |-> result, image |-> image,
     failed |-> failed, calls |-> calls]

\* a failing call is the last one the operation issues
Failed(calls, fail, ok) ==
    IF ~ok /\ fail # "none" /\ Len(calls) > 0 /\ calls[Len(calls)].fn = fail
    THEN fail
    ELSE "none"

NoThread == "-"

(***************************************************************************)
(* Construction.  env.fail names the step that fails ("none": no step),    *)
(* env.count the number of images the platform reports, env.failImage the  *)
(* image whose backbuffer, image wrapper or surface fails to build.        *)
(***************************************************************************)
ConstructorSteps ==
    <<"arguments", "GetSurfaceCapabilities", "ChooseSurfaceFormat",
      "ChoosePresentMode", "GetPhysicalDeviceSurfaceSupportKHR", "supported",
      "CreateSwapchainKHR">>

ImageParts == {"backbuffer", "image", "surface"}

\* the outcomes of a construction for which the platform reports at most n
\* images
ConstructorEnvs(n) ==
    [fail : {"none"}, count : 0..n, failImage : {1}]
      \cup [fail : {ConstructorSteps[k] : k \in 1..Len(ConstructorSteps)}
                     \cup {"GetSwapchainImagesKHR"},
            count : {1}, failImage : {1}]
      \cup {e \in [fail : ImageParts, count : 1..n, failImage : 1..n] :
               e.failImage <= e.count}

IsValid(sc) == sc.valid_

\* GetImages: empty when the query fails or reports no image
GetImages(env) ==
    IF env.fail = "GetSwapchainImagesKHR" \/ env.count = 0
    THEN <<>>
    ELSE [k \in 1..env.count |-> k]

RECURSIVE CreateImagesLoop(_, _, _, _)
CreateImagesLoop(sc, images, k, env) ==
    IF k > Len(images) THEN [sc |-> sc, ok |-> TRUE]
    ELSE IF env.fail = "backbuffer" /\ env.failImage = k
    THEN [sc |-> sc, ok |-> FALSE]
    ELSE LET s1 == [sc EXCEPT !.backbuffers_ = Append(@, NewBackbuffer)] IN
         IF env.fail = "image" /\ env.failImage = k
         THEN [sc |-> s1, ok |-> FALSE]
         ELSE LET s2 == [s1 EXCEPT !.images_ = Append(@, NewImage)] IN
              IF env.fail = "surface" /\ env.failImage = k
              THEN [sc |-> s2, ok |-> FALSE]
              ELSE CreateImagesLoop(
                       [s2 EXCEPT !.surfaces_ = Append(@, TRUE)],
                       images, k + 1, env)

\* CreateSwapchainImages returning true as soon as the platform reported
\* an image, whatever became of the backbuffers, images and surfaces
CreateSwapchainImagesUnchecked(sc, env) ==
    LET images == GetImages(env) IN
    IF Len(images) = 0 THEN [sc |-> sc, ok |-> FALSE]
    ELSE [CreateImagesLoop(sc, images, 1, env) EXCEPT !.ok = TRUE]

CreateSwapchainImages(sc, env) ==
    LET images == GetImages(env) IN
    IF Len(images) = 0 THEN [sc |-> sc, ok |-> FALSE]
    ELSE CreateImagesLoop(sc, images, 1, env)

\* the constructor: every early return leaves valid_ = false
VulkanSwapchain(env) ==
    LET sc0 == [Unbuilt EXCEPT !.built = TRUE] IN
    IF \E k \in 1..Len(ConstructorSteps) : ConstructorSteps[k] = env.fail
    THEN sc0
    ELSE LET sc1 == [sc0 EXCEPT !.swapchain_ = TRUE]
             r == CreateSwapchainImages(sc1, env)
         IN IF ~r.ok THEN r.sc
            ELSE [r.sc EXCEPT !.valid_ = TRUE]

\* the number of images vk.GetSwapchainImagesKHR reported to this
\* construction: -1 when the construction ended before it asked, or when
\* the query itself failed
ReportedCount(env) ==
    IF \/ \E k \in 1..Len(ConstructorSteps) : ConstructorSteps[k] = env.fail
       \/ env.fail = "GetSwapchainImagesKHR"
    THEN -1
    ELSE env.count

Construct(t, c, envs) ==
    /\ ~crashed
    /\ UNCHANGED unref_vars
    /\ pc[t] = "idle"
    /\ ~swapchain[c].built
    /\ \E env \in envs :
          LET sc == VulkanSwapchain(env) IN
          /\ swapchain' = [swapchain EXCEPT ![c] = sc]
          /\ last' = [count |-> ReportedCount(env)]
                        @@ Report("Construct", c, t,
                                  IF sc.valid_ THEN "valid" ELSE "invalid",
                                  NoHandle, "", -1, env.fail, <<>>)
    /\ UNCHANGED <<to_be_present_, pc, crashed>>

Init ==
    /\ swapchain = [c \in Chains |-> Unbuilt]
    /\ to_be_present_ = [t \in Threads |-> NoChain]
    /\ pc = [t \in Threads |-> "idle"]
    /\ crashed = FALSE
    /\ last = Report("Init", NoChain, NoThread, "", NoHandle, "", -1, "none",
                     <<>>)
    /\ queue = SkiaUnrefQueue
    /\ drain_tasks = 0
    /\ skia_objects = [d \in Drainers |-> NotDraining]
    /\ unref_calls = [o \in Objects |-> 0]

(***************************************************************************)
(* Construction in detail: the negotiation of the surface format, the      *)
(* predecessor swapchain, and the calls the constructor issues, in order.  *)
(***************************************************************************)
\* DesiredFormatInfos of the RS_ENABLE_VK build, most preferred first
DesiredFormatInfos ==
    <<[format_ |-> "VK_FORMAT_R8G8B8A8_SRGB",
       color_type_ |-> "kRGBA_8888_SkColorType",
       color_space_ |-> "SRGBLinear"],
      [format_ |-> "VK_FORMAT_B8G8R8A8_SRGB",
       color_type_ |-> "kBGRA_8888_SkColorType",
       color_space_ |-> "SRGBLinear"],
      [format_ |-> "VK_FORMAT_R16G16B16A16_SFLOAT",
       color_type_ |-> "kRGBA_F16_SkColorType",
       color_space_ |-> "SRGBLinear"],
      [format_ |-> "VK_FORMAT_R8G8B8A8_UNORM",
       color_type_ |-> "kRGBA_8888_SkColorType",
       color_space_ |-> "SRGB"],
      [format_ |-> "VK_FORMAT_B8G8R8A8_UNORM",
       color_type_ |-> "kRGBA_8888_SkColorType",
       color_space_ |-> "SRGB"]>>

VK_FORMAT_UNDEFINED == "VK_FORMAT_UNDEFINED"

\* the color types Skia may be asked about, and the formats a surface may
\* support
ColorTypes ==
    {DesiredFormatInfos[i].color_type_ : i \in 1..Len(DesiredFormatInfos)}

Formats == {DesiredFormatInfos[i].format_ : i \in 1..Len(DesiredFormatInfos)}

\* the loop keeping the format of every candidate, whatever Skia answers
DesiredFormatsUnfiltered(accepted) ==
    [i \in 1..Len(DesiredFormatInfos) |-> DesiredFormatInfos[i].format_]

\* the loop over format_infos: a format whose color type Skia cannot
\* render to is replaced by VK_FORMAT_UNDEFINED
DesiredFormats(accepted) ==
    [i \in 1..Len(DesiredFormatInfos) |->
        IF DesiredFormatInfos[i].color_type_ \in accepted
        THEN DesiredFormatInfos[i].format_
        ELSE VK_FORMAT_UNDEFINED]

\* VulkanDevice::ChooseSurfaceFormat: the index (from 0) of the first
\* desired format the surface supports, -1 when there is none
ChooseSurfaceFormat(desired_formats, supported) ==
    LET hits == {i \in 1..Len(desired_formats) :
                    desired_formats[i] \in supported}
    IN IF hits = {} THEN -1
       ELSE (CHOOSE i \in hits : \A j \in hits : i <= j) - 1

\* the native handle of swapchain c
SwapchainHandle(c) == <<"VkSwapchainKHR", c, -1>>

\* the hint given to vk.CreateSwapchainKHR: the handle of a predecessor
\* that was supplied and is valid
OldSwapchainHandle(old, scs) ==
    IF old # NoChain /\ IsValid(scs[old]) THEN SwapchainHandle(old)
    ELSE NoHandle

ConstructorCall(fn, c) == [fn |-> fn, chain |-> c]

\* the disposer destroying the handle before it waits for the device
DisposeSwapchainUnwaited(c, sc) ==
    IF sc.swapchain_
    THEN <<[fn |-> "DestroySwapchainKHR", chain |-> c,
            swapchain |-> SwapchainHandle(c)],
           ConstructorCall("WaitIdle", c)>>
    ELSE <<>>

\* the disposer of swapchain_: the device is waited for, then the handle
\* is destroyed.  A swapchain that never got a handle has nothing to
\* dispose of.
DisposeSwapchain(c, sc) ==
    IF sc.swapchain_
    THEN <<ConstructorCall("WaitIdle", c),
           [fn |-> "DestroySwapchainKHR", chain |-> c,
            swapchain |-> SwapchainHandle(c)]>>
    ELSE <<>>

\* what the fields of env that the detailed constructor adds come to for
\* VulkanSwapchain: the step that fails.  The choice of the format fails
\* when no desired format is supported.
FailingStep(env) ==
    IF env.fail \in {"arguments", "GetSurfaceCapabilities"} THEN env.fail
    ELSE IF ChooseSurfaceFormat(DesiredFormats(env.accepted), env.supported)
              < 0
    THEN "ChooseSurfaceFormat"
    ELSE env.fail

\* the outcomes of a detailed construction for which the platform reports
\* at most n images.  What Skia accepts and what the surface supports are
\* varied where the construction goes on to use the chosen format
ConstructorDetailEnvs(n) ==
    [fail : {"arguments", "GetSurfaceCapabilities"},
     accepted : {ColorTypes}, supported : {Formats},
     count : {1}, failImage : {1}]
      \cup [fail : {"none"}, accepted : SUBSET ColorTypes,
            supported : SUBSET Formats, count : {1}, failImage : {1}]
      \cup [fail : {"ChoosePresentMode",
                    "GetPhysicalDeviceSurfaceSupportKHR", "supported",
                    "CreateSwapchainKHR", "GetSwapchainImagesKHR"},
            accepted : {ColorTypes}, supported : {Formats},
            count : {1}, failImage : {1}]
      \cup [fail : {"none"}, accepted : {ColorTypes}, supported : {Formats},
            count : 0..n, failImage : {1}]
      \cup {e \in [fail : ImageParts, accepted : {ColorTypes},
                    supported : {Formats}, count : 1..n, failImage : 1..n] :
               e.failImage <= e.count}

\* the calls of one construction, in the order the constructor issues
\* them, up to the step that fails; then the predecessor, which the
\* constructor owns, is destroyed as the constructor returns
ConstructorCallsUpTo(c, env, fail, old, scs) ==
    LET desired_formats == DesiredFormats(env.accepted)
        format_index == ChooseSurfaceFormat(desired_formats, env.supported)
        info == DesiredFormatInfos[format_index + 1]
        surfaces == IF env.fail \in {"backbuffer", "image"}
                    THEN env.failImage - 1
                    ELSE IF env.fail = "surface" THEN env.failImage
                    ELSE env.count
        capabilities == <<ConstructorCall("GetSurfaceCapabilities", c)>>
        format ==
            [i \in 1..Len(DesiredFormatInfos) |->
                [fn |-> "colorTypeSupportedAsSurface", chain |-> c,
                 color_type |-> DesiredFormatInfos[i].color_type_]]
              \o <<[fn |-> "ChooseSurfaceFormat", chain |-> c,
                    desired_formats |-> desired_formats]>>
        mode == <<ConstructorCall("ChoosePresentMode", c)>>
        support ==
            <<ConstructorCall("GetPhysicalDeviceSurfaceSupportKHR", c)>>
        create ==
            <<[fn |-> "CreateSwapchainKHR", chain |-> c,
               imageFormat |-> desired_formats[format_index + 1],
               oldSwapchain |-> OldSwapchainHandle(old, scs)]>>
        images ==
            <<ConstructorCall("GetSwapchainImagesKHR", c)>>
              \o (IF fail = "GetSwapchainImagesKHR" THEN <<>>
                  ELSE [k \in 1..surfaces |->
                           [fn |-> "CreateSkiaSurface", chain |-> c,
                            image |-> k - 1,
                            color_type |-> info.color_type_,
                            color_space |-> info.color_space_]])
        own ==
            IF fail = "arguments" THEN <<>>
            ELSE IF fail = "GetSurfaceCapabilities" THEN capabilities
            ELSE IF fail = "ChooseSurfaceFormat" THEN capabilities \o format
            ELSE IF fail = "ChoosePresentMode"
            THEN capabilities \o format \o mode
            ELSE IF fail \in {"GetPhysicalDeviceSurfaceSupportKHR",
                              "supported"}
            THEN capabilities \o format \o mode \o support
            ELSE IF fail = "CreateSwapchainKHR"
            THEN capabilities \o format \o mode \o support \o create
            ELSE capabilities \o format \o mode \o support \o create
                   \o images
    IN own \o (IF old = NoChain THEN <<>>
               ELSE DisposeSwapchain(old, scs[old]))

\* the constructor going on to create the native swapchain after the
\* surface has refused to be presented to
ConstructorCallsPastSupport(c, env, old, scs) ==
    ConstructorCallsUpTo(c, env,
                         IF FailingStep(env) = "supported"
                         THEN "CreateSwapchainKHR" ELSE FailingStep(env),
                         old, scs)

ConstructorCalls(c, env, old, scs) ==
    ConstructorCallsUpTo(c, env, FailingStep(env), old, scs)

\* a swapchain after its destructor has run
Destructed(sc) ==
    [sc EXCEPT !.destroyed = TRUE, !.swapchain_ = FALSE,
               !.backbuffers_ = <<>>, !.images_ = <<>>, !.surfaces_ = <<>>]

\* the constructor called with predecessor old (NoChain: without one)
ConstructFrom(t, c, old, envs) ==
    /\ ~crashed
    /\ UNCHANGED unref_vars
    /\ pc[t] = "idle"
    /\ ~swapchain[c].built
    /\ old # c
    /\ old # NoChain => (swapchain[old].built /\ ~swapchain[old].destroyed)
    /\ \E env \in envs :
          LET fail == FailingStep(env)
              sc == VulkanSwapchain([fail |-> fail, count |-> env.count,
                                     failImage |-> env.failImage])
              format_index ==
                  IF fail \in {"arguments", "GetSurfaceCapabilities"}
                  THEN -1
                  ELSE ChooseSurfaceFormat(DesiredFormats(env.accepted),
                                           env.supported)
          IN
          /\ swapchain' =
                 [k \in Chains |->
                     IF k = c THEN sc
                     ELSE IF k = old THEN Destructed(swapchain[k])
                     ELSE swapchain[k]]
          /\ last' = [count |-> ReportedCount([env EXCEPT !.fail = fail]),
                      format_index |-> format_index,
                      accepted |-> env.accepted,
                      supported |-> env.supported,
                      old |-> old]
                        @@ Report("Construct", c, t,
                                  IF sc.valid_ THEN "valid" ELSE "invalid",
                                  NoHandle, "", -1, fail,
                                  ConstructorCalls(c, env, old, swapchain))
    /\ UNCHANGED <<to_be_present_, pc, crashed>>

\* ~VulkanSwapchain
Destroy(t, c) ==
    /\ ~crashed
    /\ UNCHANGED unref_vars
    /\ pc[t] = "idle"
    /\ swapchain[c].built
    /\ ~swapchain[c].destroyed
    /\ swapchain' = [swapchain EXCEPT ![c] = Destructed(@)]
    /\ last' = Report("Destroy", c, t, "", NoHandle, "", -1, "none",
                      DisposeSwapchain(c, swapchain[c]))
    /\ UNCHANGED <<to_be_present_, pc, crashed>>

(***************************************************************************)
(* VulkanImage::InsertImageMemoryBarrier: records the barrier and, only if *)
(* recording succeeded, takes the destination stage, access and layout as  *)
(* the image's tracked state.                                              *)
(***************************************************************************)
InsertImageMemoryBarrier(image, dst, access, layout, ok) ==
    IF ok
    THEN [image EXCEPT !.stage = dst, !.access = access, !.layout = layout]
    ELSE image

\* a SetMultiThreading that leaves the backbuffer as it is
SetMultiThreadingNever(sc, i) == sc

\* VulkanBackbuffer::SetMultiThreading / UnsetMultiThreading on slot i
SetMultiThreading(sc, i) ==
    [sc EXCEPT !.backbuffers_ =
        SetAt(@, i, [At(@, i) EXCEPT !.multi_threading = TRUE])]

UnsetMultiThreading(sc, i) ==
    [sc EXCEPT !.backbuffers_ =
        SetAt(@, i, [At(@, i) EXCEPT !.multi_threading = FALSE])]

\* every backbuffer taken to wait on its own fences, whatever its flag
WaitsOnOwnFencesAlways(backbuffer) == TRUE

\* the test of AcquireSurface before Steps 1 and 2: a backbuffer in
\* multi-threading mode does not wait on its private fences
WaitsOnOwnFences(backbuffer) == ~backbuffer.multi_threading

\* GetNextBackbuffer with the rotation clamped at the last slot instead of
\* wrapping to slot 0
GetNextBackbufferClamped(sc) ==
    LET available_backbuffers == Len(sc.backbuffers_) IN
    IF available_backbuffers = 0 THEN [sc |-> sc, index |-> -1]
    ELSE LET next_backbuffer_index ==
                 IF sc.current_backbuffer_index_ + 1 < Len(sc.backbuffers_)
                 THEN sc.current_backbuffer_index_ + 1
                 ELSE sc.current_backbuffer_index_
         IN [sc |-> [sc EXCEPT !.current_backbuffer_index_ =
                                   next_backbuffer_index],
             index |-> next_backbuffer_index]

(***************************************************************************)
(* GetNextBackbuffer: index -1 stands for the nullptr it returns.          *)
(***************************************************************************)
GetNextBackbuffer(sc) ==
    LET available_backbuffers == Len(sc.backbuffers_) IN
    IF available_backbuffers = 0 THEN [sc |-> sc, index |-> -1]
    ELSE LET next_backbuffer_index ==
                 (sc.current_backbuffer_index_ + 1) % Len(sc.backbuffers_)
         IN IF ~At(sc.backbuffers_, next_backbuffer_index).valid
            THEN [sc |-> sc, index |-> -1]
            ELSE [sc |-> [sc EXCEPT !.current_backbuffer_index_ =
                                        next_backbuffer_index],
                  index |-> next_backbuffer_index]

\* the switch with its default branch reporting out-of-date
AcquireResultStatusDefaultOutOfDate(acquire_result) ==
    CASE acquire_result = "VK_SUCCESS" -> ""
      [] acquire_result = "VK_ERROR_OUT_OF_DATE_KHR" -> ErrorSurfaceOutOfDate
      [] acquire_result = "VK_ERROR_SURFACE_LOST_KHR" -> ErrorSurfaceLost
      [] OTHER -> ErrorSurfaceOutOfDate

\* the switch with the out-of-date case falling out of it like success
AcquireResultStatusOutOfDateBreaks(acquire_result) ==
    CASE acquire_result = "VK_SUCCESS" -> ""
      [] acquire_result = "VK_ERROR_OUT_OF_DATE_KHR" -> ""
      [] acquire_result = "VK_ERROR_SURFACE_LOST_KHR" -> ErrorSurfaceLost
      [] OTHER -> ErrorSurfaceLost

\* the switch on the result of vk.AcquireNextImageKHR: "" stands for break
AcquireResultStatus(acquire_result) ==
    CASE acquire_result = "VK_SUCCESS" -> ""
      [] acquire_result = "VK_ERROR_OUT_OF_DATE_KHR" -> ErrorSurfaceOutOfDate
      [] acquire_result = "VK_ERROR_SURFACE_LOST_KHR" -> ErrorSurfaceLost
      [] OTHER -> ErrorSurfaceLost

\* the stage moved whether or not the barrier was recorded
AdvancePipelineStageAlways(sc, ok, destination_pipeline_stage) ==
    [sc EXCEPT !.current_pipeline_stage_ = destination_pipeline_stage]

\* the stage left where it was after a barrier that was recorded
KeepPipelineStage(sc, ok, destination_pipeline_stage) == sc

\* the branch after a barrier insertion: the stage moves only on success
AdvancePipelineStage(sc, ok, destination_pipeline_stage) ==
    IF ~ok THEN sc
    ELSE [sc EXCEPT !.current_pipeline_stage_ = destination_pipeline_stage]

\* an AcquireSurface that returns without recording the image index
SetCurrentImageIndexNever(sc, next_image_index) == sc

\* the last assignment of AcquireSurface
SetCurrentImageIndex(sc, next_image_index) ==
    [sc EXCEPT !.current_image_index_ = next_image_index]

(***************************************************************************)
(* AcquireSurface.  env.fail names the collaborator call that fails,       *)
(* env.acquire_result and env.next_image_index are what the platform       *)
(* answers to vk.AcquireNextImageKHR.                                      *)
(***************************************************************************)
AcquireFailures ==
    {"none", "WaitFences", "ResetFences", "Begin", "InsertImageMemoryBarrier",
     "End", "QueueSubmit", "getBackendRenderTarget"}

\* the answers of the collaborators when no chain has more than n images.
\* An answer is listed only where the code asks for it: a failing fence
\* call, a failing platform request or an image index beyond every chain
\* ends the call before any later answer
AcquireEnvs(n) ==
    [fail : {"WaitFences", "ResetFences"}, acquire_result : {"VK_SUCCESS"},
     next_image_index : {0}]
      \cup [fail : {"none"}, acquire_result : AcquireResults \ {"VK_SUCCESS"},
            next_image_index : {0}]
      \cup [fail : AcquireFailures \ {"WaitFences", "ResetFences"},
            acquire_result : {"VK_SUCCESS"}, next_image_index : 0..(n - 1)]
      \cup [fail : {"none"}, acquire_result : {"VK_SUCCESS"},
            next_image_index : {n}]

AcquireSurfaceSteps(c, sc, env) ==
    LET Ret(s, status, surface, calls) ==
            [sc |-> s, status |-> status, surface |-> surface, calls |-> calls]
        Error(s, calls) == Ret(s, ErrorSurfaceLost, NoHandle, calls)
    IN
    \* Step 0: the next backbuffer
    LET next == GetNextBackbuffer(sc) IN
    IF next.index = -1 THEN Error(next.sc, <<>>) ELSE
    LET s0 == next.sc
        bb == next.index
        backbuffer == At(s0.backbuffers_, bb)
        \* Steps 1 and 2: wait on the fences, then reset them
        c2 == IF ~WaitsOnOwnFences(backbuffer) THEN <<>>
              ELSE IF env.fail = "WaitFences"
              THEN <<FenceCall("WaitFences", c, bb)>>
              ELSE <<FenceCall("WaitFences", c, bb),
                     FenceCall("ResetFences", c, bb)>>
    IN
    IF WaitsOnOwnFences(backbuffer)
         /\ env.fail \in {"WaitFences", "ResetFences"}
    THEN Error(s0, c2) ELSE
    \* Step 3: the next image index
    LET c3 == Append(c2, AcquireNextImageCall(c, UsageSemaphore(c, bb)))
        status == AcquireResultStatus(env.acquire_result)
    IN
    IF status # "" THEN Ret(s0, status, NoHandle, c3) ELSE
    IF env.next_image_index >= Len(s0.images_) THEN Error(s0, c3) ELSE
    LET img == env.next_image_index
        image == At(s0.images_, img)
    IN
    IF ~image.valid THEN Error(s0, c3) ELSE
    \* Step 4: start recording
    LET cmd == UsageCommandBuffer(c, bb)
        c4 == Append(c3, RecordCall("Begin", c, cmd))
    IN
    IF env.fail = "Begin" THEN Error(s0, c4) ELSE
    \* Step 5: image layout to color attachment mode
    LET ok == env.fail # "InsertImageMemoryBarrier"
        c5 == Append(c4, BarrierCall(c, cmd, img, s0.current_pipeline_stage_,
                                     COLOR_ATTACHMENT_OUTPUT,
                                     COLOR_ATTACHMENT_WRITE,
                                     COLOR_ATTACHMENT_OPTIMAL))
        s5 == AdvancePipelineStage(
                  [s0 EXCEPT !.images_ = SetAt(@, img,
                      InsertImageMemoryBarrier(image, COLOR_ATTACHMENT_OUTPUT,
                          COLOR_ATTACHMENT_WRITE, COLOR_ATTACHMENT_OPTIMAL,
                          ok))],
                  ok, COLOR_ATTACHMENT_OUTPUT)
    IN
    IF ~ok THEN Error(s5, c5) ELSE
    \* Step 6: end recording
    LET c6 == Append(c5, RecordCall("End", c, cmd)) IN
    IF env.fail = "End" THEN Error(s5, c6) ELSE
    \* Step 7: submit to the device queue
    LET c7 == Append(c6, QueueSubmitCall(c, <<COLOR_ATTACHMENT_OUTPUT>>,
                                         <<UsageSemaphore(c, bb)>>, <<>>,
                                         <<cmd>>, UsageFence(c, bb)))
    IN
    IF env.fail = "QueueSubmit" THEN Error(s5, c7) ELSE
    LET s7 == UnsetMultiThreading(s5, bb) IN
    \* Step 8: tell Skia about the layout
    IF ~At(s7.surfaces_, img) THEN Error(s7, c7) ELSE
    LET c8 == Append(c7, SurfaceCall("getBackendRenderTarget", c, img, ""))
    IN
    IF env.fail = "getBackendRenderTarget" THEN Error(s7, c8) ELSE
    Ret(SetCurrentImageIndex(s7, img), Success, SkSurface(c, img),
        Append(c8, SurfaceCall("setVkImageLayout", c, img,
                               COLOR_ATTACHMENT_OPTIMAL)))

\* AcquireSurface taking the next backbuffer before it looks at valid_
AcquireSurfaceRotatingFirst(c, sc, env) ==
    IF ~IsValid(sc)
    THEN [sc |-> GetNextBackbuffer(sc).sc, status |-> ErrorSurfaceLost,
          surface |-> NoHandle, calls |-> <<>>]
    ELSE AcquireSurfaceSteps(c, sc, env)

\* AcquireSurface recording the image index as soon as the platform has
\* answered, before the steps that can still fail
AcquireSurfaceIndexEarly(c, sc, env) ==
    IF ~IsValid(sc)
    THEN [sc |-> sc, status |-> ErrorSurfaceLost, surface |-> NoHandle,
          calls |-> <<>>]
    ELSE LET r == AcquireSurfaceSteps(c, sc, env) IN
         IF /\ \E k \in 1..Len(r.calls) : r.calls[k].fn = "Begin"
            /\ env.next_image_index < Len(sc.images_)
         THEN [r EXCEPT !.sc.current_image_index_ = env.next_image_index]
         ELSE r

\* AcquireSurface forgetting, on success, what it tracked for the images
\* it did not acquire
AcquireSurfaceForgettingOthers(c, sc, env) ==
    IF ~IsValid(sc)
    THEN [sc |-> sc, status |-> ErrorSurfaceLost, surface |-> NoHandle,
          calls |-> <<>>]
    ELSE LET r == AcquireSurfaceSteps(c, sc, env) IN
         IF r.status # Success THEN r
         ELSE [r EXCEPT !.sc.images_ =
                  [k \in 1..Len(@) |->
                      IF k = env.next_image_index + 1 THEN @[k]
                      ELSE NewImage]]

\* AcquireSurface resetting the fences before it waits on them
AcquireSurfaceResettingFirst(c, sc, env) ==
    IF ~IsValid(sc)
    THEN [sc |-> sc, status |-> ErrorSurfaceLost, surface |-> NoHandle,
          calls |-> <<>>]
    ELSE LET r == AcquireSurfaceSteps(c, sc, env) IN
         IF Len(r.calls) >= 2 /\ r.calls[2].fn = "ResetFences"
         THEN [r EXCEPT !.calls[1] = r.calls[2], !.calls[2] = r.calls[1]]
         ELSE r

\* AcquireSurface taking the backbuffer out of multi-threading mode on
\* every path, not only past its queue submit
AcquireSurfaceUnflaggingAlways(c, sc, env) ==
    IF ~IsValid(sc)
    THEN [sc |-> sc, status |-> ErrorSurfaceLost, surface |-> NoHandle,
          calls |-> <<>>]
    ELSE LET r == AcquireSurfaceSteps(c, sc, env) IN
         [r EXCEPT !.sc =
             UnsetMultiThreading(r.sc, r.sc.current_backbuffer_index_)]

\* AcquireSurface recording whatever index the platform answered, in
\* range or not
AcquireSurfaceTrustingIndex(c, sc, env) ==
    IF ~IsValid(sc)
    THEN [sc |-> sc, status |-> ErrorSurfaceLost, surface |-> NoHandle,
          calls |-> <<>>]
    ELSE LET r == AcquireSurfaceSteps(c, sc, env) IN
         IF /\ \E k \in 1..Len(r.calls) :
                  r.calls[k].fn = "AcquireNextImageKHR"
            /\ env.acquire_result = "VK_SUCCESS"
            /\ env.next_image_index >= Len(sc.images_)
         THEN [r EXCEPT !.sc.current_image_index_ = env.next_image_index]
         ELSE r

\* the entry of AcquireSurface: an invalid swapchain is turned away
AcquireSurface(c, sc, env) ==
    IF ~IsValid(sc)
    THEN [sc |-> sc, status |-> ErrorSurfaceLost, surface |-> NoHandle,
          calls |-> <<>>]
    ELSE AcquireSurfaceSteps(c, sc, env)

CallAcquireSurface(t, c, envs) ==
    /\ ~crashed
    /\ UNCHANGED unref_vars
    /\ pc[t] = "idle"
    /\ swapchain[c].built
    /\ \E env \in envs :
          LET r == AcquireSurface(c, swapchain[c], env)
              asked == \E k \in 1..Len(r.calls) :
                           r.calls[k].fn = "AcquireNextImageKHR"
          IN
          /\ swapchain' = [swapchain EXCEPT ![c] = r.sc]
          /\ last' = Report("AcquireSurface", c, t, r.status, r.surface,
                            IF asked THEN env.acquire_result ELSE "",
                            IF asked /\ env.acquire_result = "VK_SUCCESS"
                            THEN env.next_image_index ELSE -1,
                            Failed(r.calls, env.fail, r.status = Success),
                            r.calls)
    /\ UNCHANGED <<to_be_present_, pc, crashed>>

(***************************************************************************)
(* FlushCommands: records the transition to present mode into the render   *)
(* command buffer of the current backbuffer, and stops there.              *)
(***************************************************************************)
FlushFailures == {"none", "Begin", "InsertImageMemoryBarrier", "End"}

FlushEnvs == [fail : FlushFailures]

\* FlushCommands on a valid swapchain
FlushCommandsSteps(c, sc, env) ==
    LET Ret(s, ok, calls) == [sc |-> s, ok |-> ok, calls |-> calls] IN
    LET img == sc.current_image_index_
        bb == sc.current_backbuffer_index_
        image == At(sc.images_, img)
        cmd == RenderCommandBuffer(c, bb)
        \* Step 0: Skia flushes the surface; Step 1: start recording
        c1 == <<SurfaceCall("flush", c, img, ""),
                RecordCall("Begin", c, cmd)>>
    IN
    IF env.fail = "Begin" THEN Ret(sc, FALSE, c1) ELSE
    \* Step 2: image layout to present mode
    LET ok == env.fail # "InsertImageMemoryBarrier"
        c2 == Append(c1, BarrierCall(c, cmd, img, sc.current_pipeline_stage_,
                                     BOTTOM_OF_PIPE, MEMORY_READ,
                                     PRESENT_SRC_KHR))
        s2 == AdvancePipelineStage(
                  [sc EXCEPT !.images_ = SetAt(@, img,
                      InsertImageMemoryBarrier(image, BOTTOM_OF_PIPE,
                          MEMORY_READ, PRESENT_SRC_KHR, ok))],
                  ok, BOTTOM_OF_PIPE)
    IN
    IF ~ok THEN Ret(s2, FALSE, c2) ELSE
    \* Step 3: end recording
    LET c3 == Append(c2, RecordCall("End", c, cmd)) IN
    IF env.fail = "End" THEN Ret(s2, FALSE, c3) ELSE
    Ret(s2, TRUE, c3)

\* FlushCommands taking the backbuffer out of multi-threading mode, as
\* Submit does after its queue submit
FlushCommandsUnflagging(c, sc, env) ==
    IF ~IsValid(sc) THEN [sc |-> sc, ok |-> FALSE, calls |-> <<>>]
    ELSE LET r == FlushCommandsSteps(c, sc, env) IN
         [r EXCEPT !.sc =
             UnsetMultiThreading(r.sc, r.sc.current_backbuffer_index_)]

\* FlushCommands leaving current_pipeline_stage_ as it found it
FlushCommandsKeepingStage(c, sc, env) ==
    IF ~IsValid(sc) THEN [sc |-> sc, ok |-> FALSE, calls |-> <<>>]
    ELSE LET r == FlushCommandsSteps(c, sc, env) IN
         [r EXCEPT !.sc.current_pipeline_stage_ = sc.current_pipeline_stage_]

\* the entry of FlushCommands: an invalid swapchain is turned away
FlushCommands(c, sc, env) ==
    IF ~IsValid(sc) THEN [sc |-> sc, ok |-> FALSE, calls |-> <<>>]
    ELSE FlushCommandsSteps(c, sc, env)

CallFlushCommands(t, c, envs) ==
    /\ ~crashed
    /\ UNCHANGED unref_vars
    /\ pc[t] = "idle"
    /\ swapchain[c].built
    /\ \E env \in envs :
          LET r == FlushCommands(c, swapchain[c], env) IN
          /\ swapchain' = [swapchain EXCEPT ![c] = r.sc]
          /\ last' = Report("FlushCommands", c, t,
                            IF r.ok THEN "true" ELSE "false", NoHandle, "",
                            -1, Failed(r.calls, env.fail, r.ok), r.calls)
    /\ UNCHANGED <<to_be_present_, pc, crashed>>

(***************************************************************************)
(* Submit: the same recording, then the queue submit and the present of    *)
(* the image at current_image_index_.                                      *)
(***************************************************************************)
SubmitFailures ==
    {"none", "Begin", "InsertImageMemoryBarrier", "End", "QueueSubmit",
     "QueuePresentKHR"}

SubmitEnvs == [fail : SubmitFailures]

\* Submit on a valid swapchain
SubmitSteps(c, sc, env) ==
    LET Ret(s, ok, calls) == [sc |-> s, ok |-> ok, calls |-> calls] IN
    LET img == sc.current_image_index_
        bb == sc.current_backbuffer_index_
        image == At(sc.images_, img)
        cmd == RenderCommandBuffer(c, bb)
        \* Step 0: Skia flushes the surface; Step 1: start recording
        c1 == <<SurfaceCall("flush", c, img, ""),
                RecordCall("Begin", c, cmd)>>
    IN
    IF env.fail = "Begin" THEN Ret(sc, FALSE, c1) ELSE
    \* Step 2: image layout to present mode
    LET ok == env.fail # "InsertImageMemoryBarrier"
        c2 == Append(c1, BarrierCall(c, cmd, img, sc.current_pipeline_stage_,
                                     BOTTOM_OF_PIPE, MEMORY_READ,
                                     PRESENT_SRC_KHR))
        s2 == AdvancePipelineStage(
                  [sc EXCEPT !.images_ = SetAt(@, img,
                      InsertImageMemoryBarrier(image, BOTTOM_OF_PIPE,
                          MEMORY_READ, PRESENT_SRC_KHR, ok))],
                  ok, BOTTOM_OF_PIPE)
    IN
    IF ~ok THEN Ret(s2, FALSE, c2) ELSE
    \* Step 3: end recording
    LET c3 == Append(c2, RecordCall("End", c, cmd)) IN
    IF env.fail = "End" THEN Ret(s2, FALSE, c3) ELSE
    \* Step 4: submit, signalling the render semaphore
    LET c4 == Append(c3, QueueSubmitCall(c, <<>>, <<>>,
                                         <<RenderSemaphore(c, bb)>>, <<cmd>>,
                                         RenderFence(c, bb)))
    IN
    IF env.fail = "QueueSubmit" THEN Ret(s2, FALSE, c4) ELSE
    LET s4 == UnsetMultiThreading(s2, bb)
        \* Step 5: present, waiting on the render semaphore
        c5 == Append(c4, QueuePresentCall(c, <<RenderSemaphore(c, bb)>>,
                                          <<c>>, <<img>>))
    IN
    IF env.fail = "QueuePresentKHR" THEN Ret(s4, FALSE, c5) ELSE
    Ret(s4, TRUE, c5)

\* a Submit that goes on to present after its queue submit has failed
SubmitPresentingAnyway(c, sc, env) ==
    IF ~IsValid(sc) THEN [sc |-> sc, ok |-> FALSE, calls |-> <<>>]
    ELSE LET r == SubmitSteps(c, sc, env) IN
         IF env.fail # "QueueSubmit" THEN r
         ELSE [r EXCEPT !.calls =
                  Append(@, QueuePresentCall(
                                c,
                                <<RenderSemaphore(
                                      c, sc.current_backbuffer_index_)>>,
                                <<c>>, <<sc.current_image_index_>>))]

\* a Submit that gives the swapchain up when one of its calls fails
SubmitInvalidating(c, sc, env) ==
    IF ~IsValid(sc) THEN [sc |-> sc, ok |-> FALSE, calls |-> <<>>]
    ELSE LET r == SubmitSteps(c, sc, env) IN
         IF r.ok THEN r ELSE [r EXCEPT !.sc.valid_ = FALSE]

\* the entry of Submit: an invalid swapchain is turned away
Submit(c, sc, env) ==
    IF ~IsValid(sc) THEN [sc |-> sc, ok |-> FALSE, calls |-> <<>>]
    ELSE SubmitSteps(c, sc, env)

CallSubmit(t, c, envs) ==
    /\ ~crashed
    /\ UNCHANGED unref_vars
    /\ pc[t] = "idle"
    /\ swapchain[c].built
    /\ \E env \in envs :
          LET r == Submit(c, swapchain[c], env) IN
          /\ swapchain' = [swapchain EXCEPT ![c] = r.sc]
          /\ last' = Report("Submit", c, t,
                            IF r.ok THEN "true" ELSE "false", NoHandle, "",
                            -1, Failed(r.calls, env.fail, r.ok), r.calls)
    /\ UNCHANGED <<to_be_present_, pc, crashed>>

(***************************************************************************)
(* AddToPresent: under map_mutex_, the calling thread's entry becomes this *)
(* swapchain.                                                              *)
(***************************************************************************)
\* a registration that leaves alone an entry its thread already has
AddToPresentKeepingFirst(registry, t, c) ==
    IF registry[t] # NoChain THEN registry
    ELSE [registry EXCEPT ![t] = c]

\* to_be_present_[std::this_thread::get_id()] = this: the entry of the
\* calling thread is made, or overwritten
AddToPresent(registry, t, c) == [registry EXCEPT ![t] = c]

\* the threads that hold map_mutex_ across a step: those between the
\* lock_guard of AddToPresent and its write.  (The critical section of
\* PresentAll takes and releases the mutex within one step.)
MutexHolders == {t \in Threads : pc[t] = "add"}

\* AddToPresent as one step: lock, write, unlock
CallAddToPresent(t, c) ==
    /\ ~crashed
    /\ UNCHANGED unref_vars
    /\ swapchain[c].built
    /\ pc[t] = "idle"
    /\ MutexHolders = {}
    /\ to_be_present_' = AddToPresent(to_be_present_, t, c)
    /\ last' = [replaced |-> to_be_present_[t]]
                  @@ Report("AddToPresent", c, t, "", NoHandle, "", -1,
                            "none", <<>>)
    /\ UNCHANGED <<swapchain, pc, crashed>>

\* AddToPresent in two steps: the lock_guard is taken ...
AddToPresentLock(t, c) ==
    /\ ~crashed
    /\ UNCHANGED unref_vars
    /\ swapchain[c].built
    /\ pc[t] = "idle"
    /\ MutexHolders = {}
    /\ pc' = [pc EXCEPT ![t] = "add"]
    /\ last' = Report("AddToPresentLock", c, t, "", NoHandle, "", -1, "none",
                      <<>>)
    /\ UNCHANGED <<swapchain, to_be_present_, crashed>>

\* ... and the entry is written and the mutex released
AddToPresentWrite(t, c) ==
    /\ ~crashed
    /\ UNCHANGED unref_vars
    /\ pc[t] = "add"
    /\ to_be_present_' = AddToPresent(to_be_present_, t, c)
    /\ pc' = [pc EXCEPT ![t] = "idle"]
    /\ last' = [replaced |-> to_be_present_[t]]
                  @@ Report("AddToPresent", c, t, "", NoHandle, "", -1,
                            "none", <<>>)
    /\ UNCHANGED <<swapchain, crashed>>

(***************************************************************************)
(* PresentAll.  The emptiness test runs before map_mutex_ is taken, so it  *)
(* is a step of its own; everything from the lock_guard to the return is   *)
(* one critical section.                                                   *)
(***************************************************************************)
Registered(registry) == {t \in Threads : registry[t] # NoChain}

IsEmpty(registry) == Registered(registry) = {}

\* to_be_present_.clear()
Clear(registry) == [t \in Threads |-> NoChain]

\* the orders in which the unordered_map may hand out its entries
Orders(S) ==
    {f \in [1..Cardinality(S) -> S] :
        \A i, j \in 1..Cardinality(S) : f[i] = f[j] => i = j}

CallPresentAllEnter(t) ==
    /\ ~crashed
    /\ UNCHANGED unref_vars
    /\ pc[t] = "idle"
    /\ MutexHolders \ {t} = {}
    /\ IF IsEmpty(to_be_present_)
       THEN /\ pc' = pc
            /\ last' = Report("PresentAll", NoChain, t, "nothing", NoHandle,
                              "", -1, "none", <<>>)
       ELSE /\ pc' = [pc EXCEPT ![t] = "lock"]
            /\ last' = Report("PresentAllEnter", NoChain, t, "", NoHandle,
                              "", -1, "none", <<>>)
    /\ UNCHANGED <<swapchain, to_be_present_, crashed>>

\* the emptiness test while another thread is writing the registry under
\* the mutex: the read races with the write, and empty() may answer either
\* way
CallPresentAllEnterRacing(t) ==
    /\ ~crashed
    /\ UNCHANGED unref_vars
    /\ pc[t] = "idle"
    /\ MutexHolders \ {t} # {}
    /\ \E empty \in BOOLEAN :
          IF empty
          THEN /\ pc' = pc
               /\ last' = Report("PresentAll", NoChain, t, "nothing",
                                 NoHandle, "", -1, "none", <<>>)
          ELSE /\ pc' = [pc EXCEPT ![t] = "lock"]
               /\ last' = Report("PresentAllEnter", NoChain, t, "", NoHandle,
                                 "", -1, "none", <<>>)
    /\ UNCHANGED <<swapchain, to_be_present_, crashed>>

\* backbuffers_[current_backbuffer_index_] exists
HasCurrentBackbuffer(sc) ==
    sc.current_backbuffer_index_ < Len(sc.backbuffers_)

\* the loop left after its first entry
CollectFirstOnly(registry, order, k, acc) ==
    LET c == registry[order[1]]
        sc == acc.scs[c]
        bb == sc.current_backbuffer_index_
    IN [scs |-> [acc.scs EXCEPT ![c] = SetMultiThreading(sc, bb)],
        queue_signal_semaphores |-> <<RenderSemaphore(c, bb)>>,
        command_buffers |-> <<RenderCommandBuffer(c, bb)>>,
        swapchains |-> <<c>>,
        present_image_indices |-> <<sc.current_image_index_>>]

\* the loop pushing each command buffer to the front of its list
RECURSIVE CollectMisaligned(_, _, _, _)
CollectMisaligned(registry, order, k, acc) ==
    IF k > Len(order) THEN acc
    ELSE LET c == registry[order[k]]
             sc == acc.scs[c]
             bb == sc.current_backbuffer_index_
         IN CollectMisaligned(registry, order, k + 1,
                [scs |-> [acc.scs EXCEPT ![c] = SetMultiThreading(sc, bb)],
                 queue_signal_semaphores |->
                     Append(acc.queue_signal_semaphores,
                            RenderSemaphore(c, bb)),
                 command_buffers |->
                     <<RenderCommandBuffer(c, bb)>> \o acc.command_buffers,
                 swapchains |-> Append(acc.swapchains, c),
                 present_image_indices |->
                     Append(acc.present_image_indices,
                            sc.current_image_index_)])

\* the loop over the entries: flags each current backbuffer and collects
\* the four lists; acc.scs is the swapchains as the loop leaves them
RECURSIVE Collect(_, _, _, _)
Collect(registry, order, k, acc) ==
    IF k > Len(order) THEN acc
    ELSE LET c == registry[order[k]]
             sc == acc.scs[c]
             bb == sc.current_backbuffer_index_
         IN Collect(registry, order, k + 1,
                [scs |-> [acc.scs EXCEPT ![c] = SetMultiThreading(sc, bb)],
                 queue_signal_semaphores |->
                     Append(acc.queue_signal_semaphores,
                            RenderSemaphore(c, bb)),
                 command_buffers |->
                     Append(acc.command_buffers, RenderCommandBuffer(c, bb)),
                 swapchains |-> Append(acc.swapchains, c),
                 present_image_indices |->
                     Append(acc.present_image_indices,
                            sc.current_image_index_)])

\* the registry cleared on every path out of PresentAll
RegistryAlwaysCleared(registry, fail) == Clear(registry)

\* the registry as PresentAll leaves it: cleared on the path that reaches
\* the last statement, untouched on the two early returns
RegistryAfterPresentAll(registry, fail) ==
    IF fail = "none" THEN Clear(registry) ELSE registry

PresentAllFailures == {"none", "QueueSubmit", "QueuePresentKHR"}

\* a PresentAll that attaches the render fence of its first swapchain
PresentAllWithRenderFence(registry, scs, order, fail) ==
    LET got == Collect(registry, order, 1,
                   [scs |-> scs, queue_signal_semaphores |-> <<>>,
                    command_buffers |-> <<>>, swapchains |-> <<>>,
                    present_image_indices |-> <<>>])
        tmpSwapChain == registry[order[1]]
        submit == QueueSubmitCall(tmpSwapChain, <<>>, <<>>,
                                  got.queue_signal_semaphores,
                                  got.command_buffers,
                                  RenderFence(
                                      tmpSwapChain,
                                      scs[tmpSwapChain]
                                         .current_backbuffer_index_))
        present == QueuePresentCall(tmpSwapChain, got.queue_signal_semaphores,
                                    got.swapchains, got.present_image_indices)
    IN [scs |-> got.scs,
        registry |-> RegistryAfterPresentAll(registry, fail),
        status |-> CASE fail = "QueueSubmit" -> "submit failed"
                     [] fail = "QueuePresentKHR" -> "present failed"
                     [] OTHER -> "presented",
        calls |-> IF fail = "QueueSubmit" THEN <<submit>>
                  ELSE <<submit, present>>]

PresentAll(registry, scs, order, fail) ==
    LET got == Collect(registry, order, 1,
                   [scs |-> scs, queue_signal_semaphores |-> <<>>,
                    command_buffers |-> <<>>, swapchains |-> <<>>,
                    present_image_indices |-> <<>>])
        tmpSwapChain == registry[order[1]]
        submit == QueueSubmitCall(tmpSwapChain, <<>>, <<>>,
                                  got.queue_signal_semaphores,
                                  got.command_buffers, SharedFence)
        present == QueuePresentCall(tmpSwapChain, got.queue_signal_semaphores,
                                    got.swapchains, got.present_image_indices)
    IN [scs |-> got.scs,
        registry |-> RegistryAfterPresentAll(registry, fail),
        status |-> CASE fail = "QueueSubmit" -> "submit failed"
                     [] fail = "QueuePresentKHR" -> "present failed"
                     [] OTHER -> "presented",
        calls |-> IF fail = "QueueSubmit" THEN <<submit>>
                  ELSE <<submit, present>>]

\* the critical section reads no backbuffer that does not exist and has a
\* first entry to take the device from
PresentAllDefined(registry, scs) ==
    /\ ~IsEmpty(registry)
    /\ \A t \in Registered(registry) : HasCurrentBackbuffer(scs[registry[t]])

CallPresentAllLocked(t) ==
    /\ ~crashed
    /\ UNCHANGED unref_vars
    /\ pc[t] = "lock"
    /\ MutexHolders = {}
    /\ pc' = [pc EXCEPT ![t] = "idle"]
    /\ IF PresentAllDefined(to_be_present_, swapchain)
       THEN \E order \in Orders(Registered(to_be_present_)),
               fail \in PresentAllFailures :
               LET r == PresentAll(to_be_present_, swapchain, order, fail) IN
               /\ swapchain' = r.scs
               /\ to_be_present_' = r.registry
               /\ crashed' = crashed
               /\ last' = Report("PresentAll", NoChain, t, r.status, NoHandle,
                                 "", -1, fail, r.calls)
       ELSE \* an element of an empty vector, or the members of a null
            \* swapchain, are read: the process dies
            /\ crashed' = TRUE
            /\ last' = Report("PresentAll", NoChain, t, "crash", NoHandle,
                              "", -1, "none", <<>>)
            /\ UNCHANGED <<swapchain, to_be_present_>>

(***************************************************************************)
(* The specifications.  Spec drives one swapchain from one thread through  *)
(* every outcome of every call.                                            *)
(***************************************************************************)
Next ==
    \/ \E c \in Solo, t \in SoloThread :
          Construct(t, c, ConstructorEnvs(MaxImages))
    \/ \E c \in Solo, t \in SoloThread :
          CallAcquireSurface(t, c, AcquireEnvs(MaxImages))
    \/ \E c \in Solo, t \in SoloThread : CallSubmit(t, c, SubmitEnvs)
    \/ \E c \in Solo, t \in SoloThread : CallFlushCommands(t, c, FlushEnvs)
    \/ \E c \in Solo, t \in SoloThread : CallAddToPresent(t, c)
    \/ \E t \in SoloThread : CallPresentAllEnter(t)
    \/ \E t \in SoloThread : CallPresentAllLocked(t)

Spec == Init /\ [][Next]_vars

(***************************************************************************)
(* SpecBatch drives two swapchains along the batched path, each from its   *)
(* own render thread (AcquireSurface, FlushCommands, AddToPresent), while  *)
(* thread t1 is the one that calls PresentAll.  Construction and           *)
(* PresentAll meet every outcome; the calls AcquireSurface and             *)
(* FlushCommands make succeed.                                             *)
(***************************************************************************)
BatchImages == 1

Driver(c) == IF c = "c1" THEN "t1" ELSE "t2"

SucceedingAcquireEnvs ==
    {e \in AcquireEnvs(BatchImages) :
        /\ e.fail = "none"
        /\ e.acquire_result = "VK_SUCCESS"
        /\ e.next_image_index < BatchImages}

SucceedingFlushEnvs == {e \in FlushEnvs : e.fail = "none"}

NextBatch ==
    \/ \E c \in Chains : Construct(Driver(c), c, ConstructorEnvs(BatchImages))
    \/ \E c \in Chains :
          CallAcquireSurface(Driver(c), c, SucceedingAcquireEnvs)
    \/ \E c \in Chains : CallFlushCommands(Driver(c), c, SucceedingFlushEnvs)
    \/ \E c \in Chains : CallAddToPresent(Driver(c), c)
    \/ \E t \in SoloThread : CallPresentAllEnter(t)
    \/ \E t \in SoloThread : CallPresentAllLocked(t)

SpecBatch == Init /\ [][NextBatch]_vars

(***************************************************************************)
(* SpecFrames renders frame after frame on either swapchain: AcquireSurface *)
(* and Submit by turns, every call of the two succeeding, the platform      *)
(* handing out the images in any order.                                     *)
(***************************************************************************)
SuccessfulAcquireEnvs ==
    {e \in AcquireEnvs(MaxImages) :
        /\ e.fail = "none"
        /\ e.acquire_result = "VK_SUCCESS"}

SuccessfulSubmitEnvs == {e \in SubmitEnvs : e.fail = "none"}

\* the swapchain has a frame acquired and not yet submitted
FrameOpen(sc) ==
    At(sc.images_, sc.current_image_index_).layout = COLOR_ATTACHMENT_OPTIMAL

NextFrames ==
    \/ \E c \in Chains : Construct(Driver(c), c, ConstructorEnvs(MaxImages))
    \/ \E c \in Chains :
          /\ IsValid(swapchain[c])
          /\ ~FrameOpen(swapchain[c])
          /\ \E e \in SuccessfulAcquireEnvs :
                /\ e.next_image_index < Len(swapchain[c].images_)
                /\ CallAcquireSurface(Driver(c), c, {e})
    \/ \E c \in Chains :
          /\ IsValid(swapchain[c])
          /\ FrameOpen(swapchain[c])
          /\ CallSubmit(Driver(c), c, SuccessfulSubmitEnvs)

SpecFrames == Init /\ [][NextFrames]_vars

(***************************************************************************)
(* SpecPaths drives one swapchain that constructed from one thread, every  *)
(* call succeeding: a frame is ended by Submit, or by FlushCommands and     *)
(* AddToPresent with a PresentAll to follow.                                *)
(***************************************************************************)
SuccessfulConstructorEnvs(n) ==
    {e \in ConstructorEnvs(n) : IsValid(VulkanSwapchain(e))}

NextPaths ==
    \/ \E c \in Solo :
          Construct(Driver(c), c, SuccessfulConstructorEnvs(MaxImages))
    \/ \E c \in Solo, e \in SuccessfulAcquireEnvs :
          /\ e.next_image_index < Len(swapchain[c].images_)
          /\ CallAcquireSurface(Driver(c), c, {e})
    \/ \E c \in Solo : CallFlushCommands(Driver(c), c, SucceedingFlushEnvs)
    \/ \E c \in Solo : CallAddToPresent(Driver(c), c)
    \/ \E c \in Solo : CallPresentAllEnter(Driver(c))
    \/ \E c \in Solo : CallPresentAllLocked(Driver(c))
    \/ \E c \in Solo : CallSubmit(Driver(c), c, SuccessfulSubmitEnvs)

SpecPaths == Init /\ [][NextPaths]_vars

(***************************************************************************)
(* SpecLifetime has each render thread construct its swapchain, acquire,   *)
(* register and in the end destroy it, while thread t1 calls PresentAll.   *)
(***************************************************************************)
NextLifetime ==
    \/ \E c \in Chains :
          Construct(Driver(c), c, SuccessfulConstructorEnvs(BatchImages))
    \/ \E c \in Chains :
          /\ ~swapchain[c].destroyed
          /\ CallAcquireSurface(Driver(c), c, SucceedingAcquireEnvs)
    \/ \E c \in Chains :
          /\ ~swapchain[c].destroyed
          /\ CallAddToPresent(Driver(c), c)
    \/ \E c \in Chains : Destroy(Driver(c), c)
    \/ \E t \in SoloThread : CallPresentAllEnter(t)
    \/ \E t \in SoloThread : CallPresentAllLocked(t)

SpecLifetime == Init /\ [][NextLifetime]_vars

(***************************************************************************)
(* The fences of a backbuffer and the wait of AcquireSurface on them.      *)
(* A fence is "signaled", "unsignaled", or "pending" when a queue submit   *)
(* that succeeded carries it and the device has not finished that work.    *)
(* VulkanBackbuffer creates its fences signaled; WaitFences returns once   *)
(* the usage fence is signaled; ResetFences leaves both unsignaled.        *)
(***************************************************************************)
\* the swapchain with the two fences of each backbuffer, as created
WithFences(sc) ==
    [sc EXCEPT !.backbuffers_ =
        [i \in 1..Len(sc.backbuffers_) |->
            [usage_fence |-> "signaled", render_fence |-> "signaled"]
               @@ sc.backbuffers_[i]]]

ConstructFenced(t, c, envs) ==
    /\ ~crashed
    /\ UNCHANGED unref_vars
    /\ pc[t] = "idle"
    /\ ~swapchain[c].built
    /\ \E env \in envs :
          LET sc == WithFences(VulkanSwapchain(env)) IN
          /\ swapchain' = [swapchain EXCEPT ![c] = sc]
          /\ last' = [count |-> ReportedCount(env)]
                        @@ Report("Construct", c, t,
                                  IF sc.valid_ THEN "valid" ELSE "invalid",
                                  NoHandle, "", -1, env.fail, <<>>)
    /\ UNCHANGED <<to_be_present_, pc, crashed>>

\* VulkanBackbuffer::ResetFences: both fences unsignaled
ResetFences(backbuffer) ==
    [backbuffer EXCEPT !.usage_fence = "unsignaled",
                       !.render_fence = "unsignaled"]

\* the fences of the current backbuffer after an AcquireSurface that issued
\* calls: both unsignaled once ResetFences has succeeded, the usage fence
\* pending once the queue submit that carries it has succeeded
FencesAfterAcquire(sc, calls, fail) ==
    LET bb == sc.current_backbuffer_index_
        did(fn) == /\ \E k \in 1..Len(calls) : calls[k].fn = fn
                   /\ fail # fn
        reset == IF did("ResetFences")
                 THEN [sc EXCEPT !.backbuffers_ =
                          SetAt(@, bb, ResetFences(At(@, bb)))]
                 ELSE sc
    IN
    IF did("QueueSubmit")
    THEN [reset EXCEPT !.backbuffers_ =
             SetAt(@, bb, [At(@, bb) EXCEPT !.usage_fence = "pending"])]
    ELSE reset

\* the render fence of the current backbuffer after a Submit: pending once
\* the queue submit that carries it has succeeded
FencesAfterSubmit(sc, calls, fail) ==
    LET bb == sc.current_backbuffer_index_ IN
    IF (\E k \in 1..Len(calls) : calls[k].fn = "QueueSubmit")
          /\ fail # "QueueSubmit"
    THEN [sc EXCEPT !.backbuffers_ =
             SetAt(@, bb, [At(@, bb) EXCEPT !.render_fence = "pending"])]
    ELSE sc

\* AcquireSurface is called
AcquireSurfaceCall(t, c) ==
    /\ ~crashed
    /\ UNCHANGED unref_vars
    /\ pc[t] = "idle"
    /\ swapchain[c].built
    /\ pc' = [pc EXCEPT ![t] = "acquire"]
    /\ last' = Report("AcquireSurfaceCall", c, t, "", NoHandle, "", -1,
                      "none", <<>>)
    /\ UNCHANGED <<swapchain, to_be_present_, crashed>>

\* WaitFences has nothing to wait for: the swapchain is turned away before
\* it, the backbuffer is in multi-threading mode, or the usage fence of the
\* backbuffer the call rotates into is signaled
FenceWaitOver(sc) ==
    LET next == GetNextBackbuffer(sc) IN
    IF ~IsValid(sc) \/ next.index = -1 THEN TRUE
    ELSE IF ~WaitsOnOwnFences(At(next.sc.backbuffers_, next.index)) THEN TRUE
    ELSE At(next.sc.backbuffers_, next.index).usage_fence = "signaled"

\* AcquireSurface runs to its return, the fence wait not failing
AcquireSurfaceReturn(t, c, envs) ==
    /\ ~crashed
    /\ UNCHANGED unref_vars
    /\ pc[t] = "acquire"
    /\ FenceWaitOver(swapchain[c])
    /\ \E env \in {e \in envs : e.fail # "WaitFences"} :
          LET r == AcquireSurface(c, swapchain[c], env)
              asked == \E k \in 1..Len(r.calls) :
                           r.calls[k].fn = "AcquireNextImageKHR"
          IN
          /\ swapchain' = [swapchain EXCEPT ![c] =
                               FencesAfterAcquire(r.sc, r.calls, env.fail)]
          /\ last' = Report("AcquireSurface", c, t, r.status, r.surface,
                            IF asked THEN env.acquire_result ELSE "",
                            IF asked /\ env.acquire_result = "VK_SUCCESS"
                            THEN env.next_image_index ELSE -1,
                            Failed(r.calls, env.fail, r.status = Success),
                            r.calls)
    /\ pc' = [pc EXCEPT ![t] = "idle"]
    /\ UNCHANGED <<to_be_present_, crashed>>

\* Submit on a swapchain whose fences are kept track of
CallSubmitFenced(t, c, envs) ==
    /\ ~crashed
    /\ UNCHANGED unref_vars
    /\ pc[t] = "idle"
    /\ swapchain[c].built
    /\ \E env \in envs :
          LET r == Submit(c, swapchain[c], env) IN
          /\ swapchain' = [swapchain EXCEPT ![c] =
                               FencesAfterSubmit(r.sc, r.calls, env.fail)]
          /\ last' = Report("Submit", c, t,
                            IF r.ok THEN "true" ELSE "false", NoHandle, "",
                            -1, Failed(r.calls, env.fail, r.ok), r.calls)
    /\ UNCHANGED <<to_be_present_, pc, crashed>>

\* the device finishes the work a pending render fence was submitted with
RenderFenceSignaled(c, i) ==
    /\ ~crashed
    /\ UNCHANGED unref_vars
    /\ i < Len(swapchain[c].backbuffers_)
    /\ At(swapchain[c].backbuffers_, i).render_fence = "pending"
    /\ swapchain' = [swapchain EXCEPT ![c].backbuffers_ =
                         SetAt(@, i, [At(@, i) EXCEPT
                                         !.render_fence = "signaled"])]
    /\ last' = Report("RenderFenceSignaled", c, NoThread, "", NoHandle, "",
                      -1, "none", <<>>)
    /\ UNCHANGED <<to_be_present_, pc, crashed>>

\* the device finishes the work a pending usage fence was submitted with
FenceSignaled(c, i) ==
    /\ ~crashed
    /\ UNCHANGED unref_vars
    /\ i < Len(swapchain[c].backbuffers_)
    /\ At(swapchain[c].backbuffers_, i).usage_fence = "pending"
    /\ swapchain' = [swapchain EXCEPT ![c].backbuffers_ =
                         SetAt(@, i, [At(@, i) EXCEPT
                                         !.usage_fence = "signaled"])]
    /\ last' = Report("FenceSignaled", c, NoThread, "", NoHandle, "", -1,
                      "none", <<>>)
    /\ UNCHANGED <<to_be_present_, pc, crashed>>

(***************************************************************************)
(* SpecFences drives one swapchain from one thread through AcquireSurface  *)
(* and Submit with every outcome, the device signalling the fences it was  *)
(* given.  SpecFencesFair adds what the device and the platform promise:   *)
(* a pending fence is signaled in the end, and a call that has nothing to  *)
(* wait for runs to its return.                                            *)
(***************************************************************************)
NextFences ==
    \/ \E c \in Solo, t \in SoloThread :
          ConstructFenced(t, c, ConstructorEnvs(MaxImages))
    \/ \E c \in Solo, t \in SoloThread : AcquireSurfaceCall(t, c)
    \/ \E c \in Solo, t \in SoloThread :
          AcquireSurfaceReturn(t, c, AcquireEnvs(MaxImages))
    \/ \E c \in Solo, t \in SoloThread : CallSubmitFenced(t, c, SubmitEnvs)
    \/ \E c \in Solo, i \in 0..(MaxImages - 1) : FenceSignaled(c, i)
    \/ \E c \in Solo, i \in 0..(MaxImages - 1) : RenderFenceSignaled(c, i)

SpecFences == Init /\ [][NextFences]_vars

SpecFencesFair ==
    /\ SpecFences
    /\ \A c \in Solo, i \in 0..(MaxImages - 1) :
          /\ WF_vars(FenceSignaled(c, i))
          /\ WF_vars(RenderFenceSignaled(c, i))
    /\ \A c \in Solo, t \in SoloThread :
          WF_vars(AcquireSurfaceReturn(t, c, AcquireEnvs(MaxImages)))

(***************************************************************************)
(* SpecFencePaths renders frame after frame on one swapchain that           *)
(* constructed, every call succeeding, each frame ended by Submit or by     *)
(* FlushCommands, AddToPresent and PresentAll, with the fences kept track   *)
(* of.                                                                      *)
(***************************************************************************)
NextFencePaths ==
    \/ \E c \in Solo :
          ConstructFenced(Driver(c), c, SuccessfulConstructorEnvs(MaxImages))
    \/ \E c \in Solo :
          /\ IsValid(swapchain[c])
          /\ ~FrameOpen(swapchain[c])
          /\ AcquireSurfaceCall(Driver(c), c)
    \/ \E c \in Solo, e \in SuccessfulAcquireEnvs :
          /\ e.next_image_index < Len(swapchain[c].images_)
          /\ AcquireSurfaceReturn(Driver(c), c, {e})
    \/ \E c \in Solo :
          /\ IsValid(swapchain[c]) /\ FrameOpen(swapchain[c])
          /\ CallSubmitFenced(Driver(c), c, SuccessfulSubmitEnvs)
    \/ \E c \in Solo :
          /\ IsValid(swapchain[c]) /\ FrameOpen(swapchain[c])
          /\ CallFlushCommands(Driver(c), c, SucceedingFlushEnvs)
    \/ \E c \in Solo :
          /\ last.op = "FlushCommands" /\ last.chain = c
          /\ CallAddToPresent(Driver(c), c)
    \/ \E c \in Solo : CallPresentAllEnter(Driver(c))
    \/ \E c \in Solo : CallPresentAllLocked(Driver(c))
    \/ \E c \in Solo, i \in 0..(MaxImages - 1) : FenceSignaled(c, i)
    \/ \E c \in Solo, i \in 0..(MaxImages - 1) : RenderFenceSignaled(c, i)

SpecFencePaths == Init /\ [][NextFencePaths]_vars

(***************************************************************************)
(* The usage semaphore of a backbuffer.  vk.AcquireNextImageKHR is handed  *)
(* the semaphore and, when it returns an image, the semaphore is signaled  *)
(* once the image is ready ("signaled"); the queue submit of AcquireSurface *)
(* waits on it, which leaves it "unsignaled".  VulkanBackbuffer creates    *)
(* its semaphores unsignaled.                                              *)
(***************************************************************************)
\* the swapchain with the usage semaphore of each backbuffer, as created
WithSemaphores(sc) ==
    [sc EXCEPT !.backbuffers_ =
        [i \in 1..Len(sc.backbuffers_) |->
            [usage_semaphore |-> "unsignaled"] @@ sc.backbuffers_[i]]]

ConstructSignalled(t, c, envs) ==
    /\ ~crashed
    /\ UNCHANGED unref_vars
    /\ pc[t] = "idle"
    /\ ~swapchain[c].built
    /\ \E env \in envs :
          LET sc == WithSemaphores(VulkanSwapchain(env)) IN
          /\ swapchain' = [swapchain EXCEPT ![c] = sc]
          /\ last' = [count |-> ReportedCount(env)]
                        @@ Report("Construct", c, t,
                                  IF sc.valid_ THEN "valid" ELSE "invalid",
                                  NoHandle, "", -1, env.fail, <<>>)
    /\ UNCHANGED <<to_be_present_, pc, crashed>>

\* the platform request answers that hand out an image, and with it a
\* signal of the semaphore they were given
ImageReturned == {"VK_SUCCESS", "VK_SUBOPTIMAL_KHR"}

\* the usage semaphore of the current backbuffer after an AcquireSurface
\* that issued calls: signaled by a platform request that returned an
\* image, unsignaled again once the queue submit that waits on it has
\* succeeded
SemaphoreAfterAcquire(sc, calls, env) ==
    LET bb == sc.current_backbuffer_index_
        made(fn) == \E k \in 1..Len(calls) : calls[k].fn = fn
        put(value) == [sc EXCEPT !.backbuffers_ =
                          SetAt(@, bb, [At(@, bb) EXCEPT
                                           !.usage_semaphore = value])]
    IN
    IF made("QueueSubmit") /\ env.fail # "QueueSubmit" THEN put("unsignaled")
    ELSE IF made("AcquireNextImageKHR")
              /\ env.acquire_result \in ImageReturned THEN put("signaled")
    ELSE sc

\* AcquireSurface on a swapchain whose usage semaphores are kept track of
CallAcquireSurfaceSignalled(t, c, envs) ==
    /\ ~crashed
    /\ UNCHANGED unref_vars
    /\ pc[t] = "idle"
    /\ swapchain[c].built
    /\ \E env \in envs :
          LET r == AcquireSurface(c, swapchain[c], env)
              asked == \E k \in 1..Len(r.calls) :
                           r.calls[k].fn = "AcquireNextImageKHR"
          IN
          /\ swapchain' = [swapchain EXCEPT ![c] =
                               SemaphoreAfterAcquire(r.sc, r.calls, env)]
          /\ last' = Report("AcquireSurface", c, t, r.status, r.surface,
                            IF asked THEN env.acquire_result ELSE "",
                            IF asked /\ env.acquire_result = "VK_SUCCESS"
                            THEN env.next_image_index ELSE -1,
                            Failed(r.calls, env.fail, r.status = Success),
                            r.calls)
    /\ UNCHANGED <<to_be_present_, pc, crashed>>

(***************************************************************************)
(* SpecSemaphores drives one swapchain from one thread through             *)
(* AcquireSurface with every outcome, and through Submit and               *)
(* FlushCommands, the usage semaphores kept track of.                      *)
(***************************************************************************)
NextSemaphores ==
    \/ \E c \in Solo, t \in SoloThread :
          ConstructSignalled(t, c, ConstructorEnvs(MaxImages))
    \/ \E c \in Solo, t \in SoloThread :
          CallAcquireSurfaceSignalled(t, c, AcquireEnvs(MaxImages))
    \/ \E c \in Solo, t \in SoloThread : CallSubmit(t, c, SubmitEnvs)
    \/ \E c \in Solo, t \in SoloThread : CallFlushCommands(t, c, FlushEnvs)

SpecSemaphores == Init /\ [][NextSemaphores]_vars

(***************************************************************************)
(* What became of the registration of a swapchain: "none" when it is not   *)
(* registered, "fresh" from AddToPresent until a PresentAll hands it to    *)
(* its queue submit, "submitted" from then on while it stays in            *)
(* to_be_present_.                                                         *)
(***************************************************************************)
ConstructRegistering(t, c, envs) ==
    /\ ~crashed
    /\ UNCHANGED unref_vars
    /\ pc[t] = "idle"
    /\ ~swapchain[c].built
    /\ \E env \in envs :
          LET sc == [registration |-> "none"] @@ VulkanSwapchain(env) IN
          /\ swapchain' = [swapchain EXCEPT ![c] = sc]
          /\ last' = [count |-> ReportedCount(env)]
                        @@ Report("Construct", c, t,
                                  IF sc.valid_ THEN "valid" ELSE "invalid",
                                  NoHandle, "", -1, env.fail, <<>>)
    /\ UNCHANGED <<to_be_present_, pc, crashed>>

\* the registrations after registry has become registry2 and, when
\* submitted, its entries were handed to a queue submit on the way
Registrations(scs, registry, registry2, submitted) ==
    [c \in DOMAIN scs |->
        IF ~scs[c].built THEN scs[c]
        ELSE [scs[c] EXCEPT !.registration =
                 IF \A t \in Threads : registry2[t] # c THEN "none"
                 ELSE IF \A t \in Threads : registry[t] # c THEN "fresh"
                 ELSE IF submitted THEN "submitted"
                 ELSE @]]

\* AddToPresent, the registration it makes being a fresh one
CallAddToPresentRegistering(t, c) ==
    /\ ~crashed
    /\ UNCHANGED unref_vars
    /\ swapchain[c].built
    /\ pc[t] = "idle"
    /\ MutexHolders = {}
    /\ to_be_present_' = AddToPresent(to_be_present_, t, c)
    /\ swapchain' = [Registrations(swapchain, to_be_present_,
                                   to_be_present_', FALSE)
                        EXCEPT ![c].registration = "fresh"]
    /\ last' = [replaced |-> to_be_present_[t]]
                  @@ Report("AddToPresent", c, t, "", NoHandle, "", -1,
                            "none", <<>>)
    /\ UNCHANGED <<pc, crashed>>

\* the critical section of PresentAll, the registrations it found being
\* submitted ones from its queue submit on
CallPresentAllLockedRegistering(t) ==
    /\ ~crashed
    /\ UNCHANGED unref_vars
    /\ pc[t] = "lock"
    /\ MutexHolders = {}
    /\ pc' = [pc EXCEPT ![t] = "idle"]
    /\ IF PresentAllDefined(to_be_present_, swapchain)
       THEN \E order \in Orders(Registered(to_be_present_)),
               fail \in PresentAllFailures :
               LET r == PresentAll(to_be_present_, swapchain, order, fail) IN
               /\ swapchain' = Registrations(r.scs, to_be_present_,
                                             r.registry, TRUE)
               /\ to_be_present_' = r.registry
               /\ crashed' = crashed
               /\ last' = Report("PresentAll", NoChain, t, r.status, NoHandle,
                                 "", -1, fail, r.calls)
       ELSE /\ crashed' = TRUE
            /\ last' = Report("PresentAll", NoChain, t, "crash", NoHandle,
                              "", -1, "none", <<>>)
            /\ UNCHANGED <<swapchain, to_be_present_>>

(***************************************************************************)
(* SpecRegistrations has each render thread construct and register its     *)
(* swapchain, over and over, while thread t1 calls PresentAll with every   *)
(* outcome.                                                                *)
(***************************************************************************)
NextRegistrations ==
    \/ \E c \in Chains :
          ConstructRegistering(Driver(c), c,
                               SuccessfulConstructorEnvs(BatchImages))
    \/ \E c \in Chains :
          CallAcquireSurface(Driver(c), c, SucceedingAcquireEnvs)
    \/ \E c \in Chains : CallFlushCommands(Driver(c), c, SucceedingFlushEnvs)
    \/ \E c \in Chains : CallAddToPresentRegistering(Driver(c), c)
    \/ \E t \in SoloThread : CallPresentAllEnter(t)
    \/ \E t \in SoloThread : CallPresentAllLockedRegistering(t)

SpecRegistrations == Init /\ [][NextRegistrations]_vars

(***************************************************************************)
(* The acquisition a swapchain stands at: the slot whose usage semaphore   *)
(* the last AcquireSurface call handed to the platform and the image the   *)
(* platform answered, when that call returned Success; no acquisition      *)
(* before the first call and after a call that failed.                     *)
(***************************************************************************)
NoAcquisition == [ok |-> FALSE, slot |-> -1, image |-> -1]

ConstructAcquiring(t, c, envs) ==
    /\ ~crashed
    /\ UNCHANGED unref_vars
    /\ pc[t] = "idle"
    /\ ~swapchain[c].built
    /\ \E env \in envs :
          LET sc == [acquisition |-> NoAcquisition] @@ VulkanSwapchain(env) IN
          /\ swapchain' = [swapchain EXCEPT ![c] = sc]
          /\ last' = [count |-> ReportedCount(env)]
                        @@ Report("Construct", c, t,
                                  IF sc.valid_ THEN "valid" ELSE "invalid",
                                  NoHandle, "", -1, env.fail, <<>>)
    /\ UNCHANGED <<to_be_present_, pc, crashed>>

\* the acquisition an AcquireSurface call leaves, read off the semaphore
\* it passed to vk.AcquireNextImageKHR and the index the platform answered
AcquisitionOf(status, calls, env) ==
    IF status # Success THEN NoAcquisition
    ELSE LET k == CHOOSE j \in 1..Len(calls) :
                      calls[j].fn = "AcquireNextImageKHR"
         IN [ok |-> TRUE, slot |-> calls[k].semaphore[3],
             image |-> env.next_image_index]

\* AcquireSurface on a swapchain whose acquisition is kept track of
CallAcquireSurfaceAcquiring(t, c, envs) ==
    /\ ~crashed
    /\ UNCHANGED unref_vars
    /\ pc[t] = "idle"
    /\ swapchain[c].built
    /\ \E env \in envs :
          LET r == AcquireSurface(c, swapchain[c], env)
              asked == \E k \in 1..Len(r.calls) :
                           r.calls[k].fn = "AcquireNextImageKHR"
          IN
          /\ swapchain' = [swapchain EXCEPT ![c] =
                               [r.sc EXCEPT !.acquisition =
                                   AcquisitionOf(r.status, r.calls, env)]]
          /\ last' = Report("AcquireSurface", c, t, r.status, r.surface,
                            IF asked THEN env.acquire_result ELSE "",
                            IF asked /\ env.acquire_result = "VK_SUCCESS"
                            THEN env.next_image_index ELSE -1,
                            Failed(r.calls, env.fail, r.status = Success),
                            r.calls)
    /\ UNCHANGED <<to_be_present_, pc, crashed>>

(***************************************************************************)
(* SpecAcquisitions drives one swapchain from one thread through           *)
(* AcquireSurface, Submit and FlushCommands with every outcome, the        *)
(* acquisition kept track of.                                              *)
(***************************************************************************)
NextAcquisitions ==
    \/ \E c \in Solo, t \in SoloThread :
          ConstructAcquiring(t, c, ConstructorEnvs(MaxImages))
    \/ \E c \in Solo, t \in SoloThread :
          CallAcquireSurfaceAcquiring(t, c, AcquireEnvs(MaxImages))
    \/ \E c \in Solo, t \in SoloThread : CallSubmit(t, c, SubmitEnvs)
    \/ \E c \in Solo, t \in SoloThread : CallFlushCommands(t, c, FlushEnvs)

SpecAcquisitions == Init /\ [][NextAcquisitions]_vars

(***************************************************************************)
(* SkiaUnrefQueue.  Unref runs under mutex_ from its first statement to    *)
(* its return.  Drain swaps objects_ into a local deque and writes the     *)
(* flags under mutex_, then calls unref() on the objects of the local      *)
(* deque outside it.                                                       *)
(***************************************************************************)
\* SkiaUnrefQueue::Unref: the queue as the call leaves it, and whether it
\* posted a drain task
Unref(q, object) ==
    LET pushed == [q EXCEPT !.objects_ = Append(@, object)] IN
    IF q.invalid_ THEN [queue |-> pushed, posted |-> FALSE]
    ELSE IF ~q.drain_pending_
    THEN [queue |-> [pushed EXCEPT !.drain_pending_ = TRUE],
          posted |-> TRUE]
    ELSE [queue |-> pushed, posted |-> FALSE]

\* a Drain that leaves drain_pending_ as it found it
DrainKeepingPending(q, finish) ==
    [queue |-> [q EXCEPT !.objects_ = <<>>,
                         !.invalid_ = IF finish THEN finish ELSE @],
     skia_objects |-> q.objects_]

\* the critical section of SkiaUnrefQueue::Drain: the queue as it leaves
\* it, and the local deque the objects were swapped into
Drain(q, finish) ==
    [queue |-> [q EXCEPT !.objects_ = <<>>,
                         !.drain_pending_ = FALSE,
                         !.invalid_ = IF finish THEN finish ELSE @],
     skia_objects |-> q.objects_]

\* the object was handed to Unref already
Passed(object) ==
    \/ \E k \in 1..Len(queue.objects_) : queue.objects_[k] = object
    \/ \E d \in Drainers :
          \E k \in 1..Len(skia_objects[d].objects) :
             skia_objects[d].objects[k] = object
    \/ unref_calls[object] > 0

\* a thread calls Unref with an object it has not handed over before
CallUnref(object) ==
    /\ ~Passed(object)
    /\ LET r == Unref(queue, object) IN
       /\ queue' = r.queue
       /\ drain_tasks' = IF r.posted THEN drain_tasks + 1 ELSE drain_tasks
    /\ UNCHANGED <<skia_objects, unref_calls>>
    /\ UNCHANGED swapchain_vars

\* task_runner_ runs a posted task: strong->Drain(), up to the end of its
\* critical section
RunDrainTask ==
    /\ drain_tasks > 0
    /\ ~skia_objects["task"].running
    /\ LET r == Drain(queue, FALSE) IN
       /\ queue' = r.queue
       /\ skia_objects' = [skia_objects EXCEPT !["task"] =
                              [running |-> TRUE, objects |-> r.skia_objects]]
    /\ drain_tasks' = drain_tasks - 1
    /\ UNCHANGED unref_calls
    /\ UNCHANGED swapchain_vars

\* a thread calls Drain(finish) itself, up to the end of its critical
\* section
CallDrain(finish) ==
    /\ ~skia_objects["caller"].running
    /\ LET r == Drain(queue, finish) IN
       /\ queue' = r.queue
       /\ skia_objects' = [skia_objects EXCEPT !["caller"] =
                              [running |-> TRUE, objects |-> r.skia_objects]]
    /\ UNCHANGED <<drain_tasks, unref_calls>>
    /\ UNCHANGED swapchain_vars

\* how many times the object stands in the deque
Occurrences(deque, object) ==
    Cardinality({k \in 1..Len(deque) : deque[k] = object})

\* the loop of Drain: unref() on every object of the local deque, and the
\* call returns
DrainLoop(d) ==
    /\ skia_objects[d].running
    /\ unref_calls' = [o \in Objects |->
                          unref_calls[o]
                             + Occurrences(skia_objects[d].objects, o)]
    /\ skia_objects' = [skia_objects EXCEPT ![d] = NotDraining]
    /\ UNCHANGED <<queue, drain_tasks>>
    /\ UNCHANGED swapchain_vars

(***************************************************************************)
(* SpecUnref has threads call Unref and Drain in every interleaving while  *)
(* task_runner_ runs the tasks posted to it.  SpecUnrefFair adds what the  *)
(* task runner and the threads promise: a posted task runs in the end, and *)
(* a Drain call that has left its critical section runs to its return.     *)
(* Nothing promises that a thread calls Drain.                             *)
(***************************************************************************)
NextUnref ==
    \/ \E object \in Objects : CallUnref(object)
    \/ RunDrainTask
    \/ \E finish \in BOOLEAN : CallDrain(finish)
    \/ \E d \in Drainers : DrainLoop(d)

SpecUnref == Init /\ [][NextUnref]_vars

SpecUnrefFair ==
    /\ SpecUnref
    /\ WF_vars(RunDrainTask)
    /\ \A d \in Drainers : WF_vars(DrainLoop(d))

(***************************************************************************)
(* SpecRace runs the registry under two threads at the grain of the lock:  *)
(* each thread registers its own swapchain in two steps, and either thread *)
(* may call PresentAll.                                                    *)
(***************************************************************************)
NextRace ==
    \/ \E c \in Chains : Construct(Driver(c), c, ConstructorEnvs(BatchImages))
    \/ \E c \in Chains : AddToPresentLock(Driver(c), c)
    \/ \E c \in Chains : AddToPresentWrite(Driver(c), c)
    \/ \E t \in Threads : CallPresentAllEnter(t)
    \/ \E t \in Threads : CallPresentAllEnterRacing(t)
    \/ \E t \in Threads : CallPresentAllLocked(t)

SpecRace == Init /\ [][NextRace]_vars

(***************************************************************************)
(* SpecReplace has one render thread, t1, own both swapchains and register *)
(* them one after the other, while thread t2 calls PresentAll.             *)
(***************************************************************************)
NextReplace ==
    \/ \E c \in Chains : Construct("t1", c, ConstructorEnvs(BatchImages))
    \/ \E c \in Chains : CallAcquireSurface("t1", c, SucceedingAcquireEnvs)
    \/ \E c \in Chains : CallAddToPresent("t1", c)
    \/ CallPresentAllEnter("t2")
    \/ CallPresentAllLocked("t2")

SpecReplace == Init /\ [][NextReplace]_vars

(***************************************************************************)
(* GetSize.  capabilities_ is what GetSurfaceCapabilities stored during    *)
(* construction: the current, smallest and largest extent of the surface,  *)
(* each a width and a height below 2^32, which the platform chooses.       *)
(***************************************************************************)
\* the largest width or height the platform reports
MaxExtent == 2

Extents == [width : 0..MaxExtent, height : 0..MaxExtent]

Capabilities ==
    [currentExtent : Extents, minImageExtent : Extents,
     maxImageExtent : Extents]

\* SkISize::Make with its two arguments exchanged
GetSizeTransposed(sc) ==
    LET cap == sc.capabilities_
        cur == cap.currentExtent
        width == IF cur.width < cap.minImageExtent.width
                 THEN cap.minImageExtent.width
                 ELSE IF cur.width > cap.maxImageExtent.width
                 THEN cap.maxImageExtent.width
                 ELSE cur.width
        height == IF cur.height < cap.minImageExtent.height
                  THEN cap.minImageExtent.height
                  ELSE IF cur.height > cap.maxImageExtent.height
                  THEN cap.maxImageExtent.height
                  ELSE cur.height
    IN [width |-> height, height |-> width]

GetSize(sc) ==
    LET cap == sc.capabilities_
        cur == cap.currentExtent
        width == IF cur.width < cap.minImageExtent.width
                 THEN cap.minImageExtent.width
                 ELSE IF cur.width > cap.maxImageExtent.width
                 THEN cap.maxImageExtent.width
                 ELSE cur.width
        height == IF cur.height < cap.minImageExtent.height
                  THEN cap.minImageExtent.height
                  ELSE IF cur.height > cap.maxImageExtent.height
                  THEN cap.maxImageExtent.height
                  ELSE cur.height
    IN [width |-> width, height |-> height]

\* a construction in which every step succeeds, with the capabilities the
\* platform reported kept in the object
ConstructWithCapabilities(t, c, caps) ==
    /\ ~crashed
    /\ UNCHANGED unref_vars
    /\ pc[t] = "idle"
    /\ ~swapchain[c].built
    /\ \E cap \in caps :
          LET sc == VulkanSwapchain([fail |-> "none", count |-> 1,
                                     failImage |-> 1])
          IN swapchain' =
                 [swapchain EXCEPT ![c] = [capabilities_ |-> cap] @@ sc]
    /\ last' = Report("Construct", c, t, "valid", NoHandle, "", -1, "none",
                      <<>>)
    /\ UNCHANGED <<to_be_present_, pc, crashed>>

CallGetSize(t, c) ==
    /\ ~crashed
    /\ UNCHANGED unref_vars
    /\ pc[t] = "idle"
    /\ swapchain[c].built
    /\ last' = [size |-> GetSize(swapchain[c])]
                  @@ Report("GetSize", c, t, "", NoHandle, "", -1, "none",
                            <<>>)
    /\ UNCHANGED <<swapchain, to_be_present_, pc, crashed>>

\* SpecSize builds one swapchain on a surface of any capabilities and asks
\* it for its size
NextSize ==
    \/ \E c \in Solo, t \in SoloThread :
          ConstructWithCapabilities(t, c, Capabilities)
    \/ \E c \in Solo, t \in SoloThread : CallGetSize(t, c)

SpecSize == Init /\ [][NextSize]_vars

(***************************************************************************)
(* SpecConstruct builds the swapchains in detail, one from scratch or      *)
(* from the other as its predecessor, and destroys them.                   *)
(***************************************************************************)
NextConstruct ==
    \/ \E c \in Chains, old \in Chains \cup {NoChain} :
          ConstructFrom("t1", c, old, ConstructorDetailEnvs(BatchImages))
    \/ \E c \in Chains : Destroy("t1", c)

SpecConstruct == Init /\ [][NextConstruct]_vars

(***************************************************************************)
(* Properties.  A step of an operation is recognised by the report it      *)
(* leaves in last'; the unprimed variables are the state the call found.   *)
(***************************************************************************)
IsCall(op, c) == last'.op = op /\ last'.chain = c

HasCall(calls, fn) == \E k \in 1..Len(calls) : calls[k].fn = fn

\* C1: on a valid chain with N slots every AcquireSurface call moves
\* current_backbuffer_index_ to (previous + 1) mod N, whatever image index
\* the platform returns and however the rest of the call ends; the first
\* call after construction uses slot 1 mod N.
C1_Rotation ==
    [][\A c \in Chains :
         (IsCall("AcquireSurface", c) /\ swapchain[c].valid_) =>
            LET N == Len(swapchain[c].backbuffers_) IN
            /\ N >= 1
            /\ swapchain'[c].current_backbuffer_index_ =
                   (swapchain[c].current_backbuffer_index_ + 1) % N
            /\ (last.op = "Construct" =>
                   swapchain'[c].current_backbuffer_index_ = 1 % N)]_vars

\* a failed call on a chain of two slots has rotated back into slot 0 while
\* the platform had handed out image 1
C1_Witness ==
    \E c \in Chains :
       /\ last.op = "AcquireSurface" /\ last.chain = c
       /\ swapchain[c].valid_
       /\ Len(swapchain[c].backbuffers_) = 2
       /\ swapchain[c].current_backbuffer_index_ = 0
       /\ last.status = ErrorSurfaceLost
       /\ last.image = 1

\* C2: AcquireSurface changes current_image_index_ and returns a surface
\* only when it returns Success (then the index is the one the platform
\* returned and the surface is that image's); on every failing outcome the
\* index keeps its value and the surface is null.
C2_IndexOnlyOnSuccess ==
    [][\A c \in Chains :
         IsCall("AcquireSurface", c) =>
            IF last'.status = Success
            THEN /\ swapchain'[c].current_image_index_ = last'.image
                 /\ last'.surface = SkSurface(c, last'.image)
            ELSE /\ swapchain'[c].current_image_index_ =
                        swapchain[c].current_image_index_
                 /\ last'.surface = NoHandle]_vars

\* the queue submit of a call failed after the barrier for image 1 had been
\* recorded, and current_image_index_ is still 0
C2_Witness ==
    \E c \in Chains :
       /\ last.op = "AcquireSurface" /\ last.chain = c
       /\ last.failed = "QueueSubmit"
       /\ last.image = 1
       /\ swapchain[c].current_image_index_ = 0
       /\ last.surface = NoHandle

\* C3: after an AcquireSurface that returned Success the acquired image is
\* tracked as color-attachment-optimal at the color-attachment-output
\* stage; after a Submit that returned true the image at
\* current_image_index_ is tracked as present-source at bottom-of-pipe.
\* The stage is the image's and the chain's current_pipeline_stage_.
C3_TrackedLayout ==
    \A c \in Chains :
       LET sc == swapchain[c]
           image == At(sc.images_, sc.current_image_index_)
       IN
       /\ (last.op = "AcquireSurface" /\ last.chain = c
             /\ last.status = Success) =>
             /\ sc.current_image_index_ = last.image
             /\ image.layout = COLOR_ATTACHMENT_OPTIMAL
             /\ image.stage = COLOR_ATTACHMENT_OUTPUT
             /\ sc.current_pipeline_stage_ = COLOR_ATTACHMENT_OUTPUT
       /\ (last.op = "Submit" /\ last.chain = c /\ last.status = "true") =>
             /\ image.layout = PRESENT_SRC_KHR
             /\ image.stage = BOTTOM_OF_PIPE
             /\ sc.current_pipeline_stage_ = BOTTOM_OF_PIPE

\* a Submit returned true for image 1 while image 0 is still tracked as a
\* color attachment
C3_Witness ==
    \E c \in Chains :
       /\ last.op = "Submit" /\ last.chain = c /\ last.status = "true"
       /\ swapchain[c].current_image_index_ = 1
       /\ At(swapchain[c].images_, 0).layout = COLOR_ATTACHMENT_OPTIMAL

\* C6: an AcquireSurface that rotates into a backbuffer in multi-threading
\* mode issues neither WaitFences nor ResetFences and goes straight to
\* vk.AcquireNextImageKHR; one that rotates into any other backbuffer
\* issues WaitFences, then ResetFences, then the image request, and returns
\* ErrorSurfaceLost without the image request when either fence call fails.
C6_FenceSkip ==
    [][\A c \in Chains :
         (IsCall("AcquireSurface", c) /\ swapchain[c].valid_) =>
            LET bb == swapchain'[c].current_backbuffer_index_
                flagged == At(swapchain[c].backbuffers_, bb).multi_threading
                calls == last'.calls
            IN
            IF flagged
            THEN /\ ~HasCall(calls, "WaitFences")
                 /\ ~HasCall(calls, "ResetFences")
                 /\ calls[1] = AcquireNextImageCall(c, UsageSemaphore(c, bb))
            ELSE /\ calls[1] = FenceCall("WaitFences", c, bb)
                 /\ CountFn(calls, "WaitFences") = 1
                 /\ CountFn(calls, "ResetFences") <= 1
                 /\ IF last'.failed = "WaitFences"
                    THEN Len(calls) = 1 /\ last'.status = ErrorSurfaceLost
                    ELSE /\ calls[2] = FenceCall("ResetFences", c, bb)
                         /\ IF last'.failed = "ResetFences"
                            THEN /\ Len(calls) = 2
                                 /\ last'.status = ErrorSurfaceLost
                            ELSE calls[3] =
                                   AcquireNextImageCall(
                                       c, UsageSemaphore(c, bb))]_vars

\* a call went straight to the image request, which only a backbuffer in
\* multi-threading mode allows
C6_Witness ==
    /\ last.op = "AcquireSurface"
    /\ Len(last.calls) >= 1
    /\ last.calls[1].fn = "AcquireNextImageKHR"

\* C7: when InsertImageMemoryBarrier fails in AcquireSurface, Submit or
\* FlushCommands, every image's tracked stage, access and layout and the
\* chain's current_pipeline_stage_ are after the call what they were before
\* it; current_pipeline_stage_ changes only in one of these three calls,
\* and only when its barrier was recorded.
C7_BarrierFailureKeepsState ==
    [][\A c \in Chains :
         /\ (/\ last'.chain = c
             /\ last'.op \in {"AcquireSurface", "Submit", "FlushCommands"}
             /\ last'.failed = "InsertImageMemoryBarrier") =>
               /\ swapchain'[c].images_ = swapchain[c].images_
               /\ swapchain'[c].current_pipeline_stage_ =
                      swapchain[c].current_pipeline_stage_
         /\ (swapchain'[c].current_pipeline_stage_ #
                 swapchain[c].current_pipeline_stage_) =>
               /\ last'.chain = c
               /\ last'.op \in {"AcquireSurface", "Submit", "FlushCommands"}
               /\ HasCall(last'.calls, "InsertImageMemoryBarrier")
               /\ last'.failed # "InsertImageMemoryBarrier"]_vars

\* the barrier of a FlushCommands failed on an acquired image, which is
\* still tracked as a color attachment
C7_Witness ==
    \E c \in Chains :
       /\ last.op = "FlushCommands" /\ last.chain = c
       /\ last.failed = "InsertImageMemoryBarrier"
       /\ swapchain[c].current_pipeline_stage_ = COLOR_ATTACHMENT_OUTPUT
       /\ At(swapchain[c].images_, swapchain[c].current_image_index_).layout
              = COLOR_ATTACHMENT_OPTIMAL

\* C8: on a swapchain whose construction failed, AcquireSurface returns
\* ErrorSurfaceLost with a null surface, Submit and FlushCommands return
\* false, none of them issues a call and none changes the swapchain.
C8_InvalidIsInert ==
    [][\A c \in Chains :
         (/\ last'.chain = c
          /\ last'.op \in {"AcquireSurface", "Submit", "FlushCommands"}
          /\ ~swapchain[c].valid_) =>
            /\ last'.status =
                   (IF last'.op = "AcquireSurface" THEN ErrorSurfaceLost
                    ELSE "false")
            /\ last'.surface = NoHandle
            /\ last'.calls = <<>>
            /\ swapchain'[c] = swapchain[c]]_vars

\* Submit was turned away by a swapchain that failed while building its
\* second image
C8_Witness ==
    \E c \in Chains :
       /\ last.op = "Submit" /\ last.chain = c /\ last.status = "false"
       /\ swapchain[c].built /\ ~swapchain[c].valid_
       /\ Len(swapchain[c].backbuffers_) = 2

\* C9: AcquireSurface returns ErrorSurfaceOutOfDate exactly when
\* vk.AcquireNextImageKHR returned VK_ERROR_OUT_OF_DATE_KHR; it returns
\* Success exactly when the platform returned VK_SUCCESS with an image
\* index of the chain and no later call failed; every other outcome is
\* ErrorSurfaceLost.
C9_Statuses ==
    \A c \in Chains :
       (last.op = "AcquireSurface" /\ last.chain = c) =>
          /\ last.status \in {Success, ErrorSurfaceLost, ErrorSurfaceOutOfDate}
          /\ last.status = ErrorSurfaceOutOfDate
                <=> last.result = "VK_ERROR_OUT_OF_DATE_KHR"
          /\ last.status = Success
                <=> /\ last.result = "VK_SUCCESS"
                    /\ last.image < Len(swapchain[c].images_)
                    /\ last.failed = "none"

\* a result that falls to the default branch of the switch came back as
\* ErrorSurfaceLost
C9_Witness ==
    /\ last.op = "AcquireSurface"
    /\ last.result = "VK_SUBOPTIMAL_KHR"
    /\ last.status = ErrorSurfaceLost

\* C10: when vk.AcquireNextImageKHR reports VK_ERROR_OUT_OF_DATE_KHR,
\* AcquireSurface returns ErrorSurfaceOutOfDate with a null surface; apart
\* from the rotation of current_backbuffer_index_ the swapchain is as the
\* call found it, no command buffer is recorded and nothing is submitted.
C10_OutOfDate ==
    [][\A c \in Chains :
         (IsCall("AcquireSurface", c)
            /\ last'.result = "VK_ERROR_OUT_OF_DATE_KHR") =>
            /\ last'.status = ErrorSurfaceOutOfDate
            /\ last'.surface = NoHandle
            /\ swapchain'[c] =
                 [swapchain[c] EXCEPT !.current_backbuffer_index_ =
                     (@ + 1) % Len(swapchain[c].backbuffers_)]
            /\ \A k \in 1..Len(last'.calls) :
                  last'.calls[k].fn \in
                      {"WaitFences", "ResetFences", "AcquireNextImageKHR"}]_vars

\* out-of-date was reported to a chain of two slots that had presented a
\* frame before
C10_Witness ==
    \E c \in Chains :
       /\ last.op = "AcquireSurface" /\ last.chain = c
       /\ last.result = "VK_ERROR_OUT_OF_DATE_KHR"
       /\ Len(swapchain[c].backbuffers_) = 2
       /\ swapchain[c].current_pipeline_stage_ = BOTTOM_OF_PIPE
       /\ At(swapchain[c].images_, 1).layout = PRESENT_SRC_KHR

(***************************************************************************)
(* The batched path.  A step with last'.op = "PresentAll" and a status     *)
(* other than "nothing" is the critical section of PresentAll; the         *)
(* unprimed registry is the one it found.                                  *)
(***************************************************************************)
IsPresentAll == last'.op = "PresentAll" /\ last'.status # "nothing"

\* the present call names every registered swapchain with its
\* current_image_index_, and nothing else
ReferencesAll(present, registry, scs) ==
    /\ Len(present.swapchains) = Cardinality(Registered(registry))
    /\ Len(present.indices) = Len(present.swapchains)
    /\ \A t \in Registered(registry) :
          \E i \in 1..Len(present.swapchains) :
             /\ present.swapchains[i] = registry[t]
             /\ present.indices[i] = scs[registry[t]].current_image_index_

\* C4 as the spec states it: with N >= 1 swapchains registered, one
\* PresentAll issues exactly one QueueSubmit and exactly one
\* QueuePresentKHR, which references all N swapchains with their image
\* indices, whether the submit succeeds or fails.  (Stated for the calls
\* that run to their return.)
C4_Original ==
    [][(IsPresentAll /\ last'.status # "crash") =>
          /\ CountFn(last'.calls, "QueueSubmit") = 1
          /\ CountFn(last'.calls, "QueuePresentKHR") = 1
          /\ \A k \in 1..Len(last'.calls) :
                last'.calls[k].fn = "QueuePresentKHR" =>
                   ReferencesAll(last'.calls[k], to_be_present_, swapchain)
      ]_vars

\* C4 amended: with N >= 1 swapchains registered, each of which has a
\* backbuffer at its current_backbuffer_index_ (as every valid swapchain
\* has), one PresentAll issues exactly one QueueSubmit; when that submit
\* succeeds it issues exactly one QueuePresentKHR, which references all N
\* swapchains with their current image indices; when the submit fails it
\* issues no present call.
C4_OnePresentAfterSubmit ==
    [][(IsPresentAll /\ PresentAllDefined(to_be_present_, swapchain)) =>
          LET calls == last'.calls IN
          /\ last'.status \in {"presented", "submit failed", "present failed"}
          /\ CountFn(calls, "QueueSubmit") = 1
          /\ calls[1].fn = "QueueSubmit"
          /\ IF last'.failed = "QueueSubmit"
             THEN Len(calls) = 1
             ELSE /\ Len(calls) = 2
                  /\ calls[2].fn = "QueuePresentKHR"
                  /\ ReferencesAll(calls[2], to_be_present_, swapchain)
      ]_vars

\* the shared submit of two swapchains failed and no present followed it
C4_Witness ==
    /\ last.op = "PresentAll"
    /\ last.failed = "QueueSubmit"
    /\ Len(last.calls) = 1
    /\ Len(last.calls[1].cmds) = 2

C11_SecondAcquire ==
    [][\A c \in Chains :
         /\ (/\ IsCall("AcquireSurface", c)
             /\ last.op = "AcquireSurface" /\ last.chain = c
             /\ last.status = Success) =>
               LET N == Len(swapchain[c].backbuffers_) IN
               /\ swapchain'[c].current_backbuffer_index_ =
                      (swapchain[c].current_backbuffer_index_ + 1) % N
               /\ (last'.image # last.image =>
                      At(swapchain'[c].images_, last.image).layout =
                          COLOR_ATTACHMENT_OPTIMAL)
         /\ \A i \in 0..(Len(swapchain[c].images_) - 1) :
               (/\ At(swapchain[c].images_, i).layout =
                       COLOR_ATTACHMENT_OPTIMAL
                /\ ~(last'.chain = c
                       /\ last'.op \in {"Submit", "FlushCommands"})
                /\ ~(IsCall("AcquireSurface", c) /\ last'.image = i)) =>
                  At(swapchain'[c].images_, i) = At(swapchain[c].images_, i)
      ]_vars

\* a second AcquireSurface has succeeded with image 1 in slot 0 of a chain
\* of two, and image 0 and image 1 are both tracked as color attachments
C11_Witness ==
    \E c \in Chains :
       /\ last.op = "AcquireSurface" /\ last.chain = c
       /\ last.status = Success /\ last.image = 1
       /\ Len(swapchain[c].backbuffers_) = 2
       /\ swapchain[c].current_backbuffer_index_ = 0
       /\ At(swapchain[c].images_, 0).layout = COLOR_ATTACHMENT_OPTIMAL
       /\ At(swapchain[c].images_, 1).layout = COLOR_ATTACHMENT_OPTIMAL

Min(a, b) == IF a < b THEN a ELSE b

Max(a, b) == IF a > b THEN a ELSE b

\* C12 as the spec states it: GetSize returns, for the width and for the
\* height, min(max(current, min), max) of the reported extents, for every
\* combination of current, min and max.
C12_Original ==
    last.op = "GetSize" =>
       LET cap == swapchain[last.chain].capabilities_ IN
       /\ last.size.width =
              Min(Max(cap.currentExtent.width, cap.minImageExtent.width),
                  cap.maxImageExtent.width)
       /\ last.size.height =
              Min(Max(cap.currentExtent.height, cap.minImageExtent.height),
                  cap.maxImageExtent.height)

\* C12 amended: for the width and for the height independently, GetSize
\* returns min(max(current, min), max) whenever min <= max; when the
\* platform reports min > max it returns min for a current value below min
\* and max for every other current value.
C12_Clamped ==
    last.op = "GetSize" =>
       LET cap == swapchain[last.chain].capabilities_
           Clamped(cur, lo, hi) ==
               IF lo <= hi THEN Min(Max(cur, lo), hi)
               ELSE IF cur < lo THEN lo ELSE hi
       IN
       /\ last.size.width =
              Clamped(cap.currentExtent.width, cap.minImageExtent.width,
                      cap.maxImageExtent.width)
       /\ last.size.height =
              Clamped(cap.currentExtent.height, cap.minImageExtent.height,
                      cap.maxImageExtent.height)

\* the width was raised to the smallest width and the height lowered to
\* the largest height, on a surface whose smallest extent is below its
\* largest
C12_Witness ==
    /\ last.op = "GetSize"
    /\ LET cap == swapchain[last.chain].capabilities_ IN
       /\ cap.minImageExtent.width < cap.maxImageExtent.width
       /\ cap.minImageExtent.height < cap.maxImageExtent.height
       /\ cap.currentExtent.width < cap.minImageExtent.width
       /\ cap.currentExtent.height > cap.maxImageExtent.height
       /\ last.size = [width |-> cap.minImageExtent.width,
                       height |-> cap.maxImageExtent.height]

(***************************************************************************)
(* The registry under concurrent threads.                                  *)
(***************************************************************************)
\* C13 as the spec states it: every read and write of to_be_present_ is
\* made under map_mutex_, so the emptiness test of PresentAll never runs
\* while another thread holds the mutex to write the registry, and no
\* registration is written between the emptiness test of a PresentAll and
\* the end of its critical section.
C13_Original ==
    [][/\ (\/ last'.op = "PresentAllEnter"
            \/ (last'.op = "PresentAll" /\ last'.status = "nothing")) =>
              MutexHolders \ {last'.thread} = {}
       /\ last'.op = "AddToPresent" =>
              \A u \in Threads \ {last'.thread} : pc[u] # "lock"]_vars

(***************************************************************************)
(* Validity.                                                               *)
(***************************************************************************)
\* C14: a construction ends with valid_ = true exactly when none of its
\* steps failed and the platform reported at least one image; and whenever
\* valid_ is true, backbuffers_, images_ and surfaces_ have one length
\* N >= 1, which is the number of images the platform reported.
C14_ValidIffComplete ==
    \A c \in Chains :
       LET sc == swapchain[c] IN
       /\ (last.op = "Construct" /\ last.chain = c) =>
             /\ sc.valid_ <=> (last.failed = "none" /\ last.count >= 1)
             /\ sc.valid_ => Len(sc.images_) = last.count
       /\ sc.valid_ =>
             /\ Len(sc.backbuffers_) >= 1
             /\ Len(sc.backbuffers_) = Len(sc.images_)
             /\ Len(sc.images_) = Len(sc.surfaces_)

\* a construction for which the platform reported two images ended
\* invalid because the surface of the second image could not be made
C14_Witness ==
    \E c \in Chains :
       /\ last.op = "Construct" /\ last.chain = c
       /\ last.count = 2 /\ last.failed = "surface"
       /\ ~swapchain[c].valid_
       /\ Len(swapchain[c].backbuffers_) = 2
       /\ Len(swapchain[c].surfaces_) = 1

\* C15: valid_ is settled when the constructor returns: no AcquireSurface,
\* Submit, FlushCommands, AddToPresent or PresentAll, failing or not,
\* changes what IsValid() answers.
C15_ValidIsFixed ==
    [][\A c \in Chains :
         swapchain[c].built =>
            /\ swapchain'[c].built
            /\ IsValid(swapchain'[c]) = IsValid(swapchain[c])]_vars

\* the present call of a Submit failed and the swapchain is still valid
C15_Witness ==
    \E c \in Chains :
       /\ last.op = "Submit" /\ last.chain = c
       /\ last.failed = "QueuePresentKHR"
       /\ IsValid(swapchain[c])

(***************************************************************************)
(* One entry for each thread.                                              *)
(***************************************************************************)
\* the swapchains a registry holds
Pending(registry) == {registry[t] : t \in Registered(registry)}

\* C16: to_be_present_ holds at most one swapchain for each thread.  A
\* registration changes the entry of its own thread and no other; when the
\* thread had registered another swapchain before, that one is no longer
\* in the registry.  A PresentAll names in its submit and in its present
\* call one swapchain for each thread that has an entry, those entries and
\* nothing else: at most as many as there are registering threads, and
\* never a swapchain whose entry was replaced.
C16_OnePerThread ==
    [][/\ last'.op = "AddToPresent" =>
             /\ to_be_present_'[last'.thread] = last'.chain
             /\ \A u \in Threads \ {last'.thread} :
                   to_be_present_'[u] = to_be_present_[u]
             /\ last'.replaced = to_be_present_[last'.thread]
             /\ last'.replaced # last'.chain =>
                   last'.replaced \notin Pending(to_be_present_')
       /\ (IsPresentAll /\ last'.status # "crash") =>
             \A k \in 1..Len(last'.calls) :
                LET call == last'.calls[k]
                    n == Cardinality(Registered(to_be_present_))
                IN
                /\ n <= Cardinality({"t1"})
                /\ call.fn = "QueueSubmit" => Len(call.cmds) = n
                /\ call.fn = "QueuePresentKHR" =>
                      /\ Len(call.swapchains) = n
                      /\ {call.swapchains[i] :
                             i \in 1..Len(call.swapchains)}
                            = Pending(to_be_present_)]_vars

\* thread t1, which had registered c1, has registered c2 in its place
C16_Witness ==
    /\ last.op = "AddToPresent"
    /\ last.thread = "t1"
    /\ last.replaced = "c1"
    /\ last.chain = "c2"
    /\ to_be_present_["t1"] = "c2"
    /\ Pending(to_be_present_) = {"c2"}

(***************************************************************************)
(* The calls of one operation, in order.                                   *)
(***************************************************************************)
\* calls is the first n calls of full; only a call that ran to the end of
\* full succeeded, and a call that failed is the last one issued
RunsInOrder(calls, full, ok, failed) ==
    /\ Len(calls) <= Len(full)
    /\ calls = SubSeq(full, 1, Len(calls))
    /\ ok <=> (Len(calls) = Len(full) /\ failed = "none")
    /\ failed # "none" => calls[Len(calls)].fn = failed

\* C17: FlushCommands issues no queue submit and no present call and
\* leaves to_be_present_, every backbuffer's multi-threading flag,
\* current_backbuffer_index_ and current_image_index_ as it found them,
\* whether it returns true or false; when it returns true it has recorded
\* the transition to present mode into the render command buffer of the
\* current backbuffer.
C17_FlushOnlyRecords ==
    [][\A c \in Chains :
         (last'.op = "FlushCommands" /\ last'.chain = c) =>
            LET sc == swapchain[c]
                cmd == RenderCommandBuffer(c, sc.current_backbuffer_index_)
            IN
            /\ ~HasCall(last'.calls, "QueueSubmit")
            /\ ~HasCall(last'.calls, "QueuePresentKHR")
            /\ to_be_present_' = to_be_present_
            /\ swapchain'[c].backbuffers_ = sc.backbuffers_
            /\ swapchain'[c].current_backbuffer_index_ =
                   sc.current_backbuffer_index_
            /\ swapchain'[c].current_image_index_ = sc.current_image_index_
            /\ last'.status = "true" =>
                  /\ Len(last'.calls) = 4
                  /\ last'.calls[2] = RecordCall("Begin", c, cmd)
                  /\ last'.calls[3].fn = "InsertImageMemoryBarrier"
                  /\ last'.calls[3].cmd = cmd
                  /\ last'.calls[3].layout = PRESENT_SRC_KHR
                  /\ last'.calls[4] = RecordCall("End", c, cmd)]_vars

\* a FlushCommands has returned true on a registered swapchain whose
\* current backbuffer an earlier PresentAll had put in multi-threading mode
C17_Witness ==
    \E c \in Chains :
       /\ last.op = "FlushCommands" /\ last.chain = c
       /\ last.status = "true"
       /\ to_be_present_["t1"] = c
       /\ At(swapchain[c].backbuffers_,
             swapchain[c].current_backbuffer_index_).multi_threading

\* C18: the calls of one AcquireSurface on a valid swapchain are the first
\* calls of this list, in this order, each once: WaitFences and
\* ResetFences (neither for a backbuffer in multi-threading mode), the
\* image request signalling the usage semaphore, Begin of the usage
\* command buffer, the barrier, End, the queue submit waiting on the usage
\* semaphore with the usage fence, and the layout notification to Skia.
\* The list is cut after the call that failed; AcquireSurface returns
\* Success only when it ran to the end of it.
C18_AcquireOrder ==
    [][\A c \in Chains :
         (IsCall("AcquireSurface", c) /\ swapchain[c].valid_) =>
            LET bb == swapchain'[c].current_backbuffer_index_
                img == last'.image
                cmd == UsageCommandBuffer(c, bb)
                fences ==
                    IF At(swapchain[c].backbuffers_, bb).multi_threading
                    THEN <<>>
                    ELSE <<FenceCall("WaitFences", c, bb),
                           FenceCall("ResetFences", c, bb)>>
                request == <<AcquireNextImageCall(c, UsageSemaphore(c, bb))>>
                rest ==
                    <<RecordCall("Begin", c, cmd),
                      BarrierCall(c, cmd, img,
                                  swapchain[c].current_pipeline_stage_,
                                  COLOR_ATTACHMENT_OUTPUT,
                                  COLOR_ATTACHMENT_WRITE,
                                  COLOR_ATTACHMENT_OPTIMAL),
                      RecordCall("End", c, cmd),
                      QueueSubmitCall(c, <<COLOR_ATTACHMENT_OUTPUT>>,
                                      <<UsageSemaphore(c, bb)>>, <<>>,
                                      <<cmd>>, UsageFence(c, bb)),
                      SurfaceCall("getBackendRenderTarget", c, img, ""),
                      SurfaceCall("setVkImageLayout", c, img,
                                  COLOR_ATTACHMENT_OPTIMAL)>>
            IN
            /\ RunsInOrder(last'.calls, fences \o request \o rest,
                           last'.status = Success, last'.failed)
            /\ (last'.result # "VK_SUCCESS"
                   \/ last'.image >= Len(swapchain[c].images_)) =>
                  Len(last'.calls) <= Len(fences) + 1]_vars

\* an AcquireSurface stopped at its queue submit, the seventh call it made
C18_Witness ==
    /\ last.op = "AcquireSurface"
    /\ last.failed = "QueueSubmit"
    /\ Len(last.calls) = 7
    /\ last.calls[1].fn = "WaitFences"
    /\ last.status = ErrorSurfaceLost

\* C19: the calls of one Submit on a valid swapchain are the first calls
\* of this list, in this order, each once: the Skia flush, Begin of the
\* render command buffer, the barrier, End, the queue submit signalling
\* the render semaphore with the render fence, and the present of the one
\* image at current_image_index_ waiting on the render semaphore.  The
\* list is cut after the call that failed, so no present follows a failed
\* queue submit; Submit returns true only when the present succeeded.
C19_SubmitOrder ==
    [][\A c \in Chains :
         (IsCall("Submit", c) /\ swapchain[c].valid_) =>
            LET bb == swapchain[c].current_backbuffer_index_
                img == swapchain[c].current_image_index_
                cmd == RenderCommandBuffer(c, bb)
                full ==
                    <<SurfaceCall("flush", c, img, ""),
                      RecordCall("Begin", c, cmd),
                      BarrierCall(c, cmd, img,
                                  swapchain[c].current_pipeline_stage_,
                                  BOTTOM_OF_PIPE, MEMORY_READ,
                                  PRESENT_SRC_KHR),
                      RecordCall("End", c, cmd),
                      QueueSubmitCall(c, <<>>, <<>>,
                                      <<RenderSemaphore(c, bb)>>, <<cmd>>,
                                      RenderFence(c, bb)),
                      QueuePresentCall(c, <<RenderSemaphore(c, bb)>>, <<c>>,
                                       <<img>>)>>
            IN
            /\ RunsInOrder(last'.calls, full, last'.status = "true",
                           last'.failed)
            /\ last'.failed = "QueueSubmit" =>
                  ~HasCall(last'.calls, "QueuePresentKHR")
            /\ last'.status = "true" =>
                  /\ last'.calls[Len(last'.calls)].fn = "QueuePresentKHR"
                  /\ last'.failed = "none"]_vars

\* the queue submit of a Submit for image 1 failed, and it was the last
\* call of that Submit
C19_Witness ==
    \E c \in Chains :
       /\ last.op = "Submit" /\ last.chain = c
       /\ last.failed = "QueueSubmit"
       /\ Len(last.calls) = 5
       /\ swapchain[c].current_image_index_ = 1
       /\ last.status = "false"

(***************************************************************************)
(* The multi-threading flag.                                               *)
(***************************************************************************)
\* a flag is raised only by the critical section of PresentAll
RaisedOnlyByPresentAll ==
    \A c \in Chains :
       \A i \in 1..Len(swapchain[c].backbuffers_) :
          (/\ Len(swapchain'[c].backbuffers_) >= i
           /\ ~swapchain[c].backbuffers_[i].multi_threading
           /\ swapchain'[c].backbuffers_[i].multi_threading) =>
             IsPresentAll

\* C20 as the spec states it: when an AcquireSurface that rotated into a
\* backbuffer returns, with whatever outcome, that backbuffer is not in
\* multi-threading mode; and a backbuffer out of that mode stays out of it
\* until a PresentAll puts it back.
C20_Original ==
    [][/\ \A c \in Chains :
            (IsCall("AcquireSurface", c) /\ swapchain[c].valid_) =>
               ~At(swapchain'[c].backbuffers_,
                   swapchain'[c].current_backbuffer_index_).multi_threading
       /\ RaisedOnlyByPresentAll]_vars

\* C20 amended: when an AcquireSurface that rotated into a backbuffer
\* returns after its queue submit succeeded (as every call that returns
\* Success has), that backbuffer is not in multi-threading mode; a call
\* that ended at or before its queue submit leaves every flag as it found
\* it.  A backbuffer out of multi-threading mode stays out of it until a
\* PresentAll puts it back.
C20_FlagResetAfterSubmit ==
    [][/\ \A c \in Chains :
            (IsCall("AcquireSurface", c) /\ swapchain[c].valid_) =>
               IF /\ HasCall(last'.calls, "QueueSubmit")
                  /\ last'.failed # "QueueSubmit"
               THEN ~At(swapchain'[c].backbuffers_,
                        swapchain'[c].current_backbuffer_index_)
                       .multi_threading
               ELSE /\ last'.status # Success
                    /\ swapchain'[c].backbuffers_ =
                           swapchain[c].backbuffers_
       /\ RaisedOnlyByPresentAll]_vars

\* the platform answered out-of-date to an AcquireSurface that had rotated
\* into a backbuffer in multi-threading mode, and the backbuffer is still
\* in that mode
C20_Witness ==
    \E c \in Chains :
       /\ last.op = "AcquireSurface" /\ last.chain = c
       /\ last.status = ErrorSurfaceOutOfDate
       /\ At(swapchain[c].backbuffers_,
             swapchain[c].current_backbuffer_index_).multi_threading

(***************************************************************************)
(* Construction and destruction in detail.                                 *)
(***************************************************************************)
ConstructorOrder ==
    <<"GetSurfaceCapabilities", "ChooseSurfaceFormat", "ChoosePresentMode",
      "GetPhysicalDeviceSurfaceSupportKHR", "CreateSwapchainKHR",
      "GetSwapchainImagesKHR">>

\* the steps of ConstructorOrder among calls, in the order of calls
RECURSIVE StepsOf(_)
StepsOf(calls) ==
    IF calls = <<>> THEN <<>>
    ELSE IF \E k \in 1..Len(ConstructorOrder) :
               ConstructorOrder[k] = Head(calls).fn
    THEN <<Head(calls).fn>> \o StepsOf(Tail(calls))
    ELSE StepsOf(Tail(calls))

\* C21: the constructor queries the capabilities, chooses the format,
\* chooses the present mode, checks that the queue family can present,
\* creates the native swapchain and enumerates its images, in this order
\* and each only after all the earlier ones; the native swapchain is
\* created only if the four steps before it succeeded, and a surface that
\* refuses to be presented to leaves valid_ false and no native swapchain
\* created.
C21_ConstructionOrder ==
    last.op = "Construct" =>
       LET steps == StepsOf(last.calls)
           sc == swapchain[last.chain]
       IN
       /\ Len(steps) <= Len(ConstructorOrder)
       /\ steps = SubSeq(ConstructorOrder, 1, Len(steps))
       /\ HasCall(last.calls, "CreateSwapchainKHR") =>
             last.failed \notin
                {"arguments", "GetSurfaceCapabilities", "ChooseSurfaceFormat",
                 "ChoosePresentMode", "GetPhysicalDeviceSurfaceSupportKHR",
                 "supported"}
       /\ sc.swapchain_ => HasCall(last.calls, "CreateSwapchainKHR")
       /\ last.failed = "supported" =>
             /\ ~sc.valid_
             /\ ~sc.swapchain_
             /\ ~HasCall(last.calls, "CreateSwapchainKHR")
             /\ steps = SubSeq(ConstructorOrder, 1, 4)

\* a surface refused to be presented to, after the format and the present
\* mode had been chosen
C21_Witness ==
    /\ last.op = "Construct"
    /\ last.failed = "supported"
    /\ last.format_index = 0
    /\ HasCall(last.calls, "GetPhysicalDeviceSurfaceSupportKHR")
    /\ ~swapchain[last.chain].valid_

\* C22: the format chosen is the first entry of DesiredFormatInfos whose
\* color type Skia can render to and whose format the surface supports;
\* an entry Skia rejects is never chosen, though the surface support its
\* format; the native swapchain is created with the format, and every
\* surface with the color type and color space, of the chosen entry; the
\* construction fails when no entry satisfies both.
C22_FormatNegotiation ==
    (last.op = "Construct"
       /\ last.failed \notin {"arguments", "GetSurfaceCapabilities"}) =>
       LET good == {i \in 1..Len(DesiredFormatInfos) :
                      /\ DesiredFormatInfos[i].color_type_ \in last.accepted
                      /\ DesiredFormatInfos[i].format_ \in last.supported}
           chosen == DesiredFormatInfos[last.format_index + 1]
       IN
       /\ good = {} <=> last.failed = "ChooseSurfaceFormat"
       /\ good = {} => (last.format_index < 0
                          /\ ~swapchain[last.chain].valid_)
       /\ good # {} =>
             /\ last.format_index + 1 \in good
             /\ \A i \in good : last.format_index + 1 <= i
             /\ chosen.color_type_ \in last.accepted
             /\ \A k \in 1..Len(last.calls) :
                   /\ last.calls[k].fn = "CreateSwapchainKHR" =>
                         last.calls[k].imageFormat = chosen.format_
                   /\ last.calls[k].fn = "CreateSkiaSurface" =>
                         /\ last.calls[k].color_type = chosen.color_type_
                         /\ last.calls[k].color_space = chosen.color_space_

\* Skia renders to no RGBA_8888 surface, the surface supports the first
\* two formats, and a valid swapchain was built with the second
C22_Witness ==
    /\ last.op = "Construct"
    /\ "kRGBA_8888_SkColorType" \notin last.accepted
    /\ {"VK_FORMAT_R8G8B8A8_SRGB", "VK_FORMAT_B8G8R8A8_SRGB"}
          \subseteq last.supported
    /\ last.format_index = 1
    /\ swapchain[last.chain].valid_
    /\ HasCall(last.calls, "CreateSkiaSurface")

\* C23: vk.CreateSwapchainKHR is given the handle of the predecessor as
\* oldSwapchain exactly when a predecessor was supplied and is valid; a
\* native swapchain handle, the predecessor's included, is destroyed only
\* right after a WaitIdle of the same destruction, and the predecessor's
\* handle is not destroyed before the creation that names it.
C23_Predecessor ==
    [][LET calls == last'.calls IN
       /\ last'.op = "Construct" =>
             \A k \in 1..Len(calls) :
                calls[k].fn = "CreateSwapchainKHR" =>
                   /\ calls[k].oldSwapchain =
                         (IF last'.old # NoChain
                               /\ swapchain[last'.old].valid_
                          THEN SwapchainHandle(last'.old) ELSE NoHandle)
                   /\ \A j \in 1..(k - 1) :
                         calls[j].fn # "DestroySwapchainKHR"
       /\ last'.op \in {"Construct", "Destroy"} =>
             \A k \in 1..Len(calls) :
                calls[k].fn = "DestroySwapchainKHR" =>
                   /\ k > 1
                   /\ calls[k - 1] = ConstructorCall("WaitIdle",
                                                     calls[k].chain)
       /\ \A c \in Chains :
             (swapchain[c].swapchain_ /\ ~swapchain'[c].swapchain_) =>
                \E k \in 1..Len(calls) :
                   /\ calls[k].fn = "DestroySwapchainKHR"
                   /\ calls[k].swapchain = SwapchainHandle(c)]_vars

\* a swapchain was created with the handle of its valid predecessor as
\* the hint, and the predecessor's handle was destroyed after that, behind
\* a WaitIdle
C23_Witness ==
    /\ last.op = "Construct"
    /\ last.old # NoChain
    /\ \E k \in 1..Len(last.calls) :
          /\ last.calls[k].fn = "CreateSwapchainKHR"
          /\ last.calls[k].oldSwapchain = SwapchainHandle(last.old)
    /\ last.calls[Len(last.calls)].fn = "DestroySwapchainKHR"
    /\ swapchain[last.old].destroyed

C25_ListsAligned ==
    [][(IsPresentAll /\ last'.status # "crash") =>
          LET submit == last'.calls[1]
              regs == Registered(to_be_present_)
              n == Cardinality(regs)
              chain(order, i) == to_be_present_[order[i]]
              bbi(c) == swapchain[c].current_backbuffer_index_
          IN
          /\ submit.fn = "QueueSubmit"
          /\ Len(submit.signal) = n
          /\ Len(submit.cmds) = n
          /\ \E order \in Orders(regs) :
                /\ \A i \in 1..n :
                      /\ submit.signal[i] =
                            RenderSemaphore(chain(order, i),
                                            bbi(chain(order, i)))
                      /\ submit.cmds[i] =
                            RenderCommandBuffer(chain(order, i),
                                                bbi(chain(order, i)))
                /\ \A k \in 1..Len(last'.calls) :
                      last'.calls[k].fn = "QueuePresentKHR" =>
                         /\ Len(last'.calls[k].swapchains) = n
                         /\ Len(last'.calls[k].indices) = n
                         /\ \A i \in 1..n :
                               /\ last'.calls[k].swapchains[i] =
                                     chain(order, i)
                               /\ last'.calls[k].indices[i] =
                                     swapchain[chain(order, i)]
                                        .current_image_index_
          /\ \A t \in regs :
                At(swapchain'[to_be_present_[t]].backbuffers_,
                   bbi(to_be_present_[t])).multi_threading
      ]_vars

\* two swapchains were presented by one PresentAll, c2 ahead of c1
C25_Witness ==
    /\ last.op = "PresentAll"
    /\ last.status = "presented"
    /\ last.calls[2].swapchains = <<"c2", "c1">>
    /\ last.calls[1].cmds =
          <<RenderCommandBuffer("c2", 0), RenderCommandBuffer("c1", 0)>>
    /\ \A c \in Chains : At(swapchain[c].backbuffers_, 0).multi_threading

\* C26: the QueueSubmit of PresentAll waits on no semaphore, signals the
\* render semaphores of the registered swapchains' current backbuffers and
\* nothing else, and carries the shared fence; neither FlushCommands nor
\* PresentAll passes a backbuffer's render fence to a QueueSubmit, while
\* the QueueSubmit of Submit carries the render fence of the swapchain's
\* current backbuffer.
C26_Fences ==
    [][\A k \in 1..Len(last'.calls) :
          LET call == last'.calls[k] IN
          call.fn = "QueueSubmit" =>
             /\ last'.op = "PresentAll" =>
                   /\ call.wait = <<>>
                   /\ call.waitStages = <<>>
                   /\ call.fence = SharedFence
                   /\ {call.signal[i] : i \in 1..Len(call.signal)} =
                         {RenderSemaphore(
                              to_be_present_[t],
                              swapchain[to_be_present_[t]]
                                 .current_backbuffer_index_) :
                            t \in Registered(to_be_present_)}
                   /\ Len(call.signal) =
                         Cardinality(Registered(to_be_present_))
             /\ last'.op \in {"PresentAll", "FlushCommands",
                               "AddToPresent"} =>
                   call.fence[1] # "render_fence"
             /\ last'.op = "Submit" =>
                   call.fence =
                      RenderFence(last'.chain,
                                  swapchain[last'.chain]
                                     .current_backbuffer_index_)
      ]_vars

\* a PresentAll submitted the frame a swapchain had flushed in its second
\* backbuffer, signalling that backbuffer's render semaphore and carrying
\* the shared fence
C26_Witness ==
    /\ last.op = "PresentAll"
    /\ last.status = "presented"
    /\ last.calls[1].fence = SharedFence
    /\ last.calls[1].signal = <<RenderSemaphore("c1", 1)>>

(***************************************************************************)
(* The source stage of a barrier.                                          *)
(***************************************************************************)
\* C27: while AcquireSurface and Submit succeed by turns on a swapchain,
\* the source stage given to every InsertImageMemoryBarrier is the
\* destination stage of the last barrier recorded for the image being
\* transitioned, and VK_PIPELINE_STAGE_TOP_OF_PIPE_BIT for an image that
\* has had none.
C27_Original ==
    [][\A k \in 1..Len(last'.calls) :
          LET call == last'.calls[k] IN
          call.fn = "InsertImageMemoryBarrier" =>
             call.src = At(swapchain[call.chain].images_, call.image).stage
      ]_vars

(***************************************************************************)
(* The fence wait of AcquireSurface.                                       *)
(***************************************************************************)
\* C28: provided every fence a successful queue submit carries is signaled
\* in the end and the platform answers every request, every AcquireSurface
\* call returns, whatever calls failed before it.
C28_Original ==
    \A t \in SoloThread : (pc[t] = "acquire") ~> (pc[t] = "idle")

(***************************************************************************)
(* The two ways to end a frame.                                            *)
(***************************************************************************)
\* what PresentAll does for swapchain c alone, registered by its thread
\* after a FlushCommands in which every call succeeds
BatchedPath(c, scs) ==
    LET flush == FlushCommands(c, scs[c], [fail |-> "none"])
        registry == AddToPresent(Clear(to_be_present_), Driver(c), c)
        present == PresentAll(registry, [scs EXCEPT ![c] = flush.sc],
                              <<Driver(c)>>, "none")
    IN [flush |-> flush, present |-> present]

\* the swapchain without what its backbuffers hold
ButBackbuffers(sc) == [sc EXCEPT !.backbuffers_ = <<>>]

\* C29: for one swapchain with a frame acquired, a successful Submit and a
\* successful FlushCommands followed by AddToPresent and PresentAll record
\* the same barrier into the same render command buffer, leave the same
\* current_pipeline_stage_, indices and tracked image state, signal the
\* same render semaphore and present the same image index; they differ in
\* the fence the queue submit carries and in the multi-threading flag of
\* the backbuffer.
C29_PathsAgree ==
    [][/\ \A c \in Chains :
             (IsCall("Submit", c) /\ last'.status = "true"
                /\ FrameOpen(swapchain[c])) =>
                LET b == BatchedPath(c, swapchain)
                    bb == swapchain[c].current_backbuffer_index_
                    submit == last'.calls
                IN
                /\ b.flush.ok
                /\ SubSeq(submit, 1, 4) = b.flush.calls
                /\ submit[3].fn = "InsertImageMemoryBarrier"
                /\ ButBackbuffers(swapchain'[c])
                      = ButBackbuffers(b.present.scs[c])
                /\ [submit[5] EXCEPT !.fence = SharedFence]
                      = b.present.calls[1]
                /\ submit[5].fence = RenderFence(c, bb)
                /\ submit[6] = b.present.calls[2]
                /\ ~At(swapchain'[c].backbuffers_, bb).multi_threading
                /\ At(b.present.scs[c].backbuffers_, bb).multi_threading
       /\ \A c \in Chains :
             (IsPresentAll /\ last'.status = "presented"
                /\ Registered(to_be_present_) = {Driver(c)}
                /\ to_be_present_[Driver(c)] = c) =>
                LET direct == SubmitSteps(c, swapchain[c], [fail |-> "none"])
                IN
                /\ [direct.calls[5] EXCEPT !.fence = SharedFence]
                      = last'.calls[1]
                /\ direct.calls[6] = last'.calls[2]
      ]_vars

\* a swapchain whose frame had been acquired and flushed was presented
\* alone by PresentAll
C29_Witness ==
    /\ last.op = "PresentAll"
    /\ last.status = "presented"
    /\ last.calls[2].swapchains = <<"c1">>
    /\ swapchain["c1"].valid_
    /\ At(swapchain["c1"].images_,
          swapchain["c1"].current_image_index_).layout = PRESENT_SRC_KHR
    /\ At(swapchain["c1"].backbuffers_,
          swapchain["c1"].current_backbuffer_index_).multi_threading

(***************************************************************************)
(* Registration of a swapchain whose construction failed.                  *)
(***************************************************************************)
\* C30: AddToPresent on a swapchain whose construction failed changes
\* nothing: no entry of the registry is an invalid swapchain, and PresentAll
\* reads the backbuffers, handle and image index of valid swapchains only.
C30_Original ==
    [][/\ \A t \in Registered(to_be_present_') :
             IsValid(swapchain'[to_be_present_'[t]])
       /\ IsPresentAll =>
             \A t \in Registered(to_be_present_) :
                IsValid(swapchain[to_be_present_[t]])]_vars

(***************************************************************************)
(* The registry and the lifetime of the swapchains it names.               *)
(***************************************************************************)
\* C31: every entry PresentAll reads names a swapchain whose destructor has
\* not run: a swapchain registered and then destroyed is not read by a
\* later PresentAll.
C31_Original ==
    [][IsPresentAll =>
          \A t \in Registered(to_be_present_) :
             ~swapchain[to_be_present_[t]].destroyed]_vars

(***************************************************************************)
(* The multi-threading flag and the outcome of the shared queue submit.    *)
(***************************************************************************)
\* the backbuffers of swapchain c that sc2 has in multi-threading mode and
\* sc1 has not
Raised(sc1, sc2) ==
    {i \in 0..(Len(sc2.backbuffers_) - 1) :
        /\ At(sc2.backbuffers_, i).multi_threading
        /\ i < Len(sc1.backbuffers_)
        /\ ~At(sc1.backbuffers_, i).multi_threading}

\* C32 as stated: a backbuffer is put in multi-threading mode only by a
\* PresentAll whose shared queue submit succeeded; a PresentAll whose
\* queue submit failed raises no flag.
C32_Original ==
    [][\A c \in Chains :
          (swapchain[c].built /\ Raised(swapchain[c], swapchain'[c]) # {}) =>
             /\ IsPresentAll
             /\ last'.failed # "QueueSubmit"]_vars

\* C32 amended: a backbuffer is put in multi-threading mode only by
\* PresentAll, which flags the current backbuffer of every registered
\* swapchain before it calls QueueSubmit: the flags are set when the call
\* returns whether the queue submit succeeded or failed, and the next
\* AcquireSurface that rotates into a flagged backbuffer calls neither
\* WaitFences nor ResetFences.
C32_FlaggedBeforeSubmit ==
    [][/\ \A c \in Chains :
             (swapchain[c].built
                /\ Raised(swapchain[c], swapchain'[c]) # {}) => IsPresentAll
       /\ (IsPresentAll /\ last'.status # "crash") =>
             \A t \in Registered(to_be_present_) :
                LET c == to_be_present_[t] IN
                At(swapchain'[c].backbuffers_,
                   swapchain[c].current_backbuffer_index_).multi_threading
       /\ \A c \in Chains :
             (IsCall("AcquireSurface", c) /\ IsValid(swapchain[c])
                /\ GetNextBackbuffer(swapchain[c]).index # -1) =>
                (At(swapchain[c].backbuffers_,
                    GetNextBackbuffer(swapchain[c]).index).multi_threading
                   => /\ ~HasCall(last'.calls, "WaitFences")
                      /\ ~HasCall(last'.calls, "ResetFences"))]_vars

\* the shared queue submit failed and the current backbuffers of both
\* registered swapchains are in multi-threading mode
C32_Witness ==
    /\ last.op = "PresentAll"
    /\ last.failed = "QueueSubmit"
    /\ Cardinality(Registered(to_be_present_)) = 2
    /\ \A t \in Registered(to_be_present_) :
          LET sc == swapchain[to_be_present_[t]] IN
          /\ IsValid(sc)
          /\ At(sc.backbuffers_,
                sc.current_backbuffer_index_).multi_threading

(***************************************************************************)
(* The two indices.                                                        *)
(***************************************************************************)
\* C33: a valid swapchain has as many images and surfaces as backbuffers,
\* at least one, and current_backbuffer_index_ and current_image_index_
\* are below that number in every state, before the first successful
\* AcquireSurface and after a failed one too: what Submit, FlushCommands
\* and PresentAll index exists.
C33_IndicesInRange ==
    \A c \in Chains :
       IsValid(swapchain[c]) =>
          LET sc == swapchain[c]
              N == Len(sc.backbuffers_)
          IN /\ N >= 1
             /\ Len(sc.images_) = N
             /\ Len(sc.surfaces_) = N
             /\ sc.current_backbuffer_index_ \in 0..(N - 1)
             /\ sc.current_image_index_ \in 0..(N - 1)

\* Submit ran on a swapchain of two backbuffers whose only AcquireSurface
\* so far had failed on an image index out of range
C33_Witness ==
    /\ last.op = "Submit"
    /\ IsValid(swapchain[last.chain])
    /\ Len(swapchain[last.chain].backbuffers_) = 2
    /\ HasCall(last.calls, "InsertImageMemoryBarrier")
    /\ swapchain[last.chain].current_backbuffer_index_ = 1
    /\ swapchain[last.chain].current_image_index_ = 0
    /\ At(swapchain[last.chain].images_, 1).layout = LAYOUT_UNDEFINED

(***************************************************************************)
(* The state of a fence when a queue submit takes it.                      *)
(***************************************************************************)
\* the fence of backbuffer bb of sc that an operation hands to QueueSubmit,
\* as the operation's own ResetFences, if it made one, and the state
\* before the operation leave it
FenceAtSubmit(sc, bb, calls, name) ==
    IF HasCall(calls, "ResetFences") THEN "unsignaled"
    ELSE At(sc.backbuffers_, bb)[name]

\* C34: a fence is unsignaled, and not pending, whenever a queue submit
\* takes it: the usage fence of a backbuffer in AcquireSurface and its
\* render fence in Submit, whether the frames before went through Submit
\* or through FlushCommands and PresentAll.
C34_Original ==
    [][\A c \in Chains :
          /\ (IsCall("AcquireSurface", c)
                 /\ HasCall(last'.calls, "QueueSubmit")) =>
                FenceAtSubmit(swapchain[c],
                              swapchain'[c].current_backbuffer_index_,
                              last'.calls, "usage_fence") = "unsignaled"
          /\ (IsCall("Submit", c)
                 /\ HasCall(last'.calls, "QueueSubmit")) =>
                FenceAtSubmit(swapchain[c],
                              swapchain[c].current_backbuffer_index_,
                              last'.calls, "render_fence") = "unsignaled"
      ]_vars

C36_Original ==
    [][(IsPresentAll /\ HasCall(last'.calls, "QueueSubmit")) =>
          \A t \in Registered(to_be_present_) :
             swapchain[to_be_present_[t]].registration = "fresh"
      ]_vars

\* what a call of Submit or FlushCommands is given belongs to acquisition
\* a of swapchain c: the render command buffer, render semaphore and render
\* fence of a's slot, and a's image
OfAcquisition(call, c, a) ==
    CASE call.fn \in {"Begin", "End"} ->
             call.cmd = RenderCommandBuffer(c, a.slot)
      [] call.fn = "InsertImageMemoryBarrier" ->
             /\ call.cmd = RenderCommandBuffer(c, a.slot)
             /\ call.image = a.image
      [] call.fn = "QueueSubmit" ->
             /\ call.cmds = <<RenderCommandBuffer(c, a.slot)>>
             /\ call.signal = <<RenderSemaphore(c, a.slot)>>
             /\ call.fence = RenderFence(c, a.slot)
      [] call.fn = "QueuePresentKHR" ->
             /\ call.wait = <<RenderSemaphore(c, a.slot)>>
             /\ call.indices = <<a.image>>
      [] OTHER -> call.image = a.image

\* C37: a Submit or FlushCommands that runs after a successful
\* AcquireSurface, no AcquireSurface call in between, uses the render
\* command buffer, render semaphore and render fence of the slot whose
\* usage semaphore that AcquireSurface used and transitions and presents
\* the image it returned; an AcquireSurface that fails on a valid swapchain
\* moves current_backbuffer_index_ on and leaves current_image_index_ as it
\* was, so the two no longer come from one acquisition
C37_SameAcquisition ==
    [][\A c \in Chains :
          /\ ((IsCall("Submit", c) \/ IsCall("FlushCommands", c))
                 /\ swapchain[c].built /\ swapchain[c].acquisition.ok) =>
                /\ last'.calls # <<>>
                /\ \A k \in 1..Len(last'.calls) :
                      OfAcquisition(last'.calls[k], c,
                                    swapchain[c].acquisition)
          /\ (IsCall("AcquireSurface", c) /\ IsValid(swapchain[c])
                 /\ last'.status # Success) =>
                /\ swapchain'[c].current_backbuffer_index_ =
                      (swapchain[c].current_backbuffer_index_ + 1)
                         % Len(swapchain[c].backbuffers_)
                /\ swapchain'[c].current_image_index_ =
                      swapchain[c].current_image_index_
      ]_vars

\* the second frame of a swapchain of two images: AcquireSurface succeeded
\* in slot 0 with image 1 and Submit presented that image
C37_Witness ==
    /\ last.op = "Submit"
    /\ last.status = "true"
    /\ swapchain["c1"].acquisition = [ok |-> TRUE, slot |-> 0, image |-> 1]
    /\ last.calls[Len(last.calls)].indices = <<1>>

\* C38: with two threads in PresentAll at once, the call that takes
\* map_mutex_ second still finds a registered swapchain: no critical
\* section of PresentAll runs on an empty to_be_present_, so tmpSwapChain,
\* whose device the queue submit goes to, is never null
C38_Original ==
    [][(last'.op = "PresentAll" /\ pc[last'.thread] = "lock") =>
          (\E t \in Threads : to_be_present_[t] \in Chains)
      ]_vars

\* C39: every object passed to SkiaUnrefQueue::Unref has unref() called on
\* it exactly once, never twice and, every posted drain task running in the
\* end, never zero times, in every interleaving of Unref and Drain calls,
\* also when it is passed after a Drain(true) has made the queue invalid
C39_Original ==
    /\ [](\A o \in Objects : unref_calls[o] <= 1)
    /\ \A o \in Objects : Passed(o) ~> (unref_calls[o] = 1)

\* C40 as stated: at most one posted drain task is outstanding,
\* drain_pending_ is true exactly while a posted drain task has not yet
\* run, and a queue that is not invalid and holds an object has a drain
\* task outstanding
C40_Original ==
    /\ drain_tasks <= 1
    /\ queue.drain_pending_ <=> (drain_tasks >= 1)
    /\ (~queue.invalid_ /\ queue.objects_ # <<>>) => drain_tasks >= 1

\* C40 amended: while drain_pending_ is true a posted drain task is
\* outstanding, and a queue that is not invalid and holds an object has
\* drain_pending_ true, so no object queued on a queue that is not invalid
\* waits without a scheduled drain
C40_DrainScheduled ==
    /\ queue.drain_pending_ => drain_tasks >= 1
    /\ (~queue.invalid_ /\ queue.objects_ # <<>>) => queue.drain_pending_

\* an object waits on a queue that is not invalid while two posted drain
\* tasks are outstanding
C40_Witness ==
    /\ drain_tasks = 2
    /\ ~queue.invalid_
    /\ queue.objects_ # <<>>

====
